---- MODULE Spec2Model ----
(***************************************************************************)
(* unsharedfs: a FUSE file system that diverts every access below the      *)
(* mount point to BASEDIR/<uid> (or BASEDIR/<gid>) of the calling process. *)
(*                                                                         *)
(* The module models                                                       *)
(*   - the path resolver unsharedfs_fullpath,                              *)
(*   - the credential scope unsharedfs_take_context_id /                   *)
(*     unsharedfs_drop_context_id on the per-thread filesystem ids,        *)
(*   - the callbacks of the operation table, step by step,                 *)
(*   - the mount driver (main and its option callback).                    *)
(* Path names are sequences of one-character strings, so that lengths,     *)
(* truncation and the decimal rendering of an id are computed as the code  *)
(* computes them.                                                          *)
(***************************************************************************)
EXTENDS Integers, Sequences, FiniteSets, TLC

(***************************************************************************)
(* Bounds of the model.                                                    *)
(***************************************************************************)
\* The host path limit of <limits.h>, scaled down: every length test of the
\* resolver is written against this name.
PATH_MAX == 10
\* Number of descriptors / directory streams the host lets the process hold.
MaxOpen == 1
\* uid_t and gid_t have 32 bits and long has 32 or 64; here uid_t has this
\* many and long as many or twice as many.
UidBits == 5
\* Longest argument list given to the mount driver (after argv[0]).
MaxArgs == 3
\* the callbacks the observer follows on names of the host it tracks
MaxTrace == 3

(***************************************************************************)
(* Program constants.                                                      *)
(***************************************************************************)
ENOENT == 2
EIO == 5
EBADF == 9
ENOMEM == 12
EACCES == 13
EBUSY == 16
EEXIST == 17
ENOTDIR == 20
EMFILE == 24
ENAMETOOLONG == 36

\* enum unsharedfs_fsmode
UID_ONLY == "UID_ONLY"
GID_ONLY == "GID_ONLY"

\* file type bits of st_mode (octal 0040000, 0100000, 0060000)
S_IFDIR == 16384
S_IFREG == 32768
S_IFBLK == 24576

\* A null pointer, and a pointer to a string: a char* is a sequence of at
\* most one string.
NULL == << >>
Ptr(s) == << s >>
Deref(p) == p[1]

(***************************************************************************)
(* Strings.                                                                *)
(***************************************************************************)
Digit(d) == <<"0", "1", "2", "3", "4", "5", "6", "7", "8", "9">>[d + 1]

\* printf("%ld", n) for n >= 0
RECURSIVE decimal(_)
decimal(n) == IF n < 10 THEN << Digit(n) >>
              ELSE decimal(n \div 10) \o << Digit(n % 10) >>

\* What a bounded copy leaves of s in n characters.
Truncate(s, n) == IF Len(s) <= n THEN s ELSE SubSeq(s, 1, n)

\* snprintf(buf, size, ...) where the formatted text is s: the buffer keeps
\* size-1 characters, the return value is the untruncated length.
\* a variant that returns the number of characters it stored
snprintf_clipped(size, s) ==
  [buf |-> Truncate(s, size - 1), n |-> Len(Truncate(s, size - 1))]

snprintf(size, s) == [buf |-> Truncate(s, size - 1), n |-> Len(s)]

\* strncat(dst, src, n)
\* a variant that loses the last character of src
strncat_short(dst, src, n) == dst \o Truncate(src, Len(src) - 1)

strncat(dst, src, n) == dst \o Truncate(src, n)

\* "/" followed by n-1 times "f": a logical path of length n
RECURSIVE LongPath(_)
LongPath(n) == IF n <= 1 THEN << "/" >> ELSE LongPath(n - 1) \o << "f" >>

(***************************************************************************)
(* Inputs: the identities, request contexts and logical paths the model    *)
(* draws from.                                                             *)
(***************************************************************************)
\* uids and gids of calling processes (one and two decimal digits)
Ids == {1, 12}

\* a uid in the upper half of uid_t
BigId == 2 ^ (UidBits - 1) + 14

\* The data models of a build: long has 64 bits (twice uid_t) or 32 bits
\* (as uid_t).
Builds == { "LP64", "ILP32" }

\* struct fuse_context: uid, gid, pid.  pid 0 is an internal call of the
\* runtime.
Contexts == { [uid |-> 1, gid |-> 12, pid |-> 7],
              [uid |-> BigId, gid |-> 12, pid |-> 7],
              [uid |-> 1, gid |-> 12, pid |-> 0] }

\* Logical paths as the runtime hands them over: they start with "/".  The
\* long ones sit at the length limit of the two branches of the resolver.
LogicalPaths == { LongPath(2), LongPath(PATH_MAX - 5), LongPath(PATH_MAX - 4) }

FallbackName == <<"d">>

\* Names below the backing root that a request can be diverted to.
IdNames == { decimal(i) : i \in Ids }
             \cup { decimal(BigId), << "-" >> \o decimal(2 ^ UidBits - BigId) }

\* The ids of the mount process: started by root, by a plain user, or as a
\* set-uid root program started by a plain user.
Creds == { [ruid |-> 0, euid |-> 0, rgid |-> 0, egid |-> 0],
           [ruid |-> 1, euid |-> 1, rgid |-> 1, egid |-> 1],
           [ruid |-> 1, euid |-> 0, rgid |-> 1, egid |-> 1] }

(***************************************************************************)
(* State.                                                                  *)
(***************************************************************************)
VARIABLES
  pdata,      \* struct unsharedfs_state, the private data of the mount
  cred,       \* real and effective ids of the mount process
  abi,        \* the data model the program was built for
  dirs,       \* host: the entries below the backing root, by name
  fdtab,      \* host: descriptors and directory streams of the process
  fuse_open,  \* runtime: the handles between an open and its release
  pool,       \* runtime: the threads that serve requests
  pc,         \* per thread: position in the callback
  req,        \* per thread: the request being served
  fpath,      \* per thread: char fpath[PATH_MAX]
  fnewpath,   \* per thread: char fnewpath[PATH_MAX]
  fsuid,      \* per thread: filesystem uid
  fsgid,      \* per thread: filesystem gid
  errno,      \* per thread: errno
  rc,         \* per thread: the value of the host call (retstat, fd or dp)
  retstat,    \* per thread: the value the callback returns
  fi_fh,      \* per thread: fi->fh of the request
  hist,       \* per thread: what the callback has done so far (observer)
  argv,       \* driver: the argument list after argv[0]
  outargs,    \* driver: the arguments kept for the runtime
  mstate,     \* driver: position of main, next argument, exit status, output
  files,      \* host: the names below the backing root the model follows,
              \* with the inode each one is a link to (0: no such entry)
  trace       \* observer: the callbacks that have returned from a host call on
              \* followed names

vars == << pdata, cred, abi, dirs, fdtab, fuse_open, pool, pc, req, fpath, fnewpath,
           fsuid, fsgid, errno, rc, retstat, fi_fh, hist, argv, outargs, mstate,
           files, trace >>

fsvars == << pdata, cred, abi, dirs, fdtab, fuse_open, pool, pc, req, fpath,
             fnewpath, fsuid, fsgid, errno, rc, retstat, fi_fh, hist >>
mountvars == << argv, outargs, mstate >>
hostvars == << files, trace >>

Threads == {1, 2}

(***************************************************************************)
(* The path resolver.                                                      *)
(***************************************************************************)
\* the id that selects the directory (lines 100-103)
\* a variant that takes the group of a caller without process id
ugid_by_pid(pd, ctx) ==
  IF pd.fsmode = UID_ONLY /\ ctx.pid # 0 THEN ctx.uid ELSE ctx.gid

ugid_of(pd, ctx) == IF pd.fsmode = UID_ONLY THEN ctx.uid ELSE ctx.gid

\* "%s/%ld" of rootdir and ugid
\* The width of long, and "%ld" given the size_t v: the bits of v are read
\* as a long.
LONG_BIT == IF abi = "ILP32" THEN UidBits ELSE 2 * UidBits
fmt_ld(v) ==
  LET l == IF v >= 2 ^ (LONG_BIT - 1) THEN v - 2 ^ LONG_BIT ELSE v
  IN IF l < 0 THEN << "-" >> \o decimal(-l) ELSE decimal(l)

IdDirOf(pd, ugid) == pd.rootdir \o << "/" >> \o fmt_ld(ugid)

\* "%s/%s%s" of rootdir, defaultdir and path
\* a variant that leaves the fallback directory out
FallbackPathOf_root(pd, path) == pd.rootdir \o path

FallbackPathOf(pd, path) == pd.rootdir \o << "/" >> \o Deref(pd.defaultdir) \o path

\* S_IFDIR & st_mode
S_IFDIR_and(mode) == IF (mode \div S_IFDIR) % 2 = 1 THEN S_IFDIR ELSE 0

\* the stat buffer before stat has filled it
NoStat == [rc |-> -1, err |-> 0, st_mode |-> 0, st_uid |-> 0]

\* Host: stat() of the string s.  `fault` is a failure of the host other
\* than a missing entry.
HostStat(pd, s, fault) ==
  LET hit == { n \in DOMAIN dirs : pd.rootdir \o << "/" >> \o n = s }
  IN IF fault THEN [rc |-> -1, err |-> EIO, st_mode |-> 0, st_uid |-> 0]
     ELSE IF hit = {} \/ \A n \in hit : dirs[n].kind = 0
          THEN [rc |-> -1, err |-> ENOENT, st_mode |-> 0, st_uid |-> 0]
     ELSE LET n == CHOOSE n \in hit : dirs[n].kind # 0
          IN [rc |-> 0, err |-> 0, st_mode |-> dirs[n].kind, st_uid |-> dirs[n].owner]

Resolved(buf, branch, e) ==
  [ok |-> 1, fpath |-> buf, errno |-> e, probed |-> TRUE, branch |-> branch,
   log |-> IF branch = "fallback" THEN << "LOG_DEBUG" >> ELSE << >>]
Failed(buf, e, probed, branch, sev) ==
  [ok |-> 0, fpath |-> buf, errno |-> e, probed |-> probed, branch |-> branch,
   log |-> << sev >>]

\* unsharedfs_fullpath(fpath, path): sb is the result of the stat probe, e0
\* the value of errno on entry.  The result holds the return value (ok),
\* the buffer, errno on return, whether stat was called, and the log.
\* a variant without the ownership check
fullpath_any_owner(pd, ctx, path, sb, e0) ==
  LET ugid == ugid_of(pd, ctx)
      base == snprintf(PATH_MAX, IdDirOf(pd, ugid))
      pathlen == base.n
  IN IF pathlen >= PATH_MAX
     THEN Failed(base.buf, ENAMETOOLONG, FALSE, "none", "LOG_ERR")
     ELSE IF sb.rc # 0
     THEN IF pd.defaultdir # NULL
          THEN LET fb == snprintf(PATH_MAX, FallbackPathOf(pd, path))
               IN IF PATH_MAX <= fb.n
                  THEN Failed(fb.buf, ENAMETOOLONG, TRUE, "fallback", "LOG_ERR")
                  ELSE Resolved(fb.buf, "fallback", sb.err)
          ELSE Failed(base.buf, EBUSY, TRUE, "none", "LOG_WARNING")
     ELSE IF S_IFDIR_and(sb.st_mode) = 0
     THEN Failed(base.buf, ENOTDIR, TRUE, "none", "LOG_ERR")
     ELSE IF FALSE
     THEN Failed(base.buf, EACCES, TRUE, "none", "LOG_ERR")
     ELSE IF Len(path) + pathlen + 1 >= PATH_MAX
     THEN Failed(base.buf, ENAMETOOLONG, TRUE, "identity", "LOG_ERR")
     ELSE Resolved(strncat(base.buf, path, PATH_MAX - 1 - pathlen), "identity", e0)

\* a variant that reports the error of stat when there is no fallback
fullpath_enoent(pd, ctx, path, sb, e0) ==
  LET ugid == ugid_of(pd, ctx)
      base == snprintf(PATH_MAX, IdDirOf(pd, ugid))
      pathlen == base.n
  IN IF pathlen >= PATH_MAX
     THEN Failed(base.buf, ENAMETOOLONG, FALSE, "none", "LOG_ERR")
     ELSE IF sb.rc # 0
     THEN IF pd.defaultdir # NULL
          THEN LET fb == snprintf(PATH_MAX, FallbackPathOf(pd, path))
               IN IF PATH_MAX <= fb.n
                  THEN Failed(fb.buf, ENAMETOOLONG, TRUE, "fallback", "LOG_ERR")
                  ELSE Resolved(fb.buf, "fallback", sb.err)
          ELSE Failed(base.buf, sb.err, TRUE, "none", "LOG_WARNING")
     ELSE IF S_IFDIR_and(sb.st_mode) = 0
     THEN Failed(base.buf, ENOTDIR, TRUE, "none", "LOG_ERR")
     ELSE IF pd.check_ownership # 0 /\ ugid # sb.st_uid
     THEN Failed(base.buf, EACCES, TRUE, "none", "LOG_ERR")
     ELSE IF Len(path) + pathlen + 1 >= PATH_MAX
     THEN Failed(base.buf, ENAMETOOLONG, TRUE, "identity", "LOG_ERR")
     ELSE Resolved(strncat(base.buf, path, PATH_MAX - 1 - pathlen), "identity", e0)

\* unsharedfs_fullpath(fpath, path)
unsharedfs_fullpath(pd, ctx, path, sb, e0) ==
  LET ugid == ugid_of(pd, ctx)
      base == snprintf(PATH_MAX, IdDirOf(pd, ugid))
      pathlen == base.n
  IN IF pathlen >= PATH_MAX
     THEN Failed(base.buf, ENAMETOOLONG, FALSE, "none", "LOG_ERR")
     ELSE IF sb.rc # 0
     THEN IF pd.defaultdir # NULL
          THEN LET fb == snprintf(PATH_MAX, FallbackPathOf(pd, path))
               IN IF PATH_MAX <= fb.n
                  THEN Failed(fb.buf, ENAMETOOLONG, TRUE, "fallback", "LOG_ERR")
                  ELSE Resolved(fb.buf, "fallback", sb.err)
          ELSE Failed(base.buf, EBUSY, TRUE, "none", "LOG_WARNING")
     ELSE IF S_IFDIR_and(sb.st_mode) = 0
     THEN Failed(base.buf, ENOTDIR, TRUE, "none", "LOG_ERR")
     ELSE IF pd.check_ownership # 0 /\ ugid # sb.st_uid
     THEN Failed(base.buf, EACCES, TRUE, "none", "LOG_ERR")
     ELSE IF Len(path) + pathlen + 1 >= PATH_MAX
     THEN Failed(base.buf, ENAMETOOLONG, TRUE, "identity", "LOG_ERR")
     ELSE Resolved(strncat(base.buf, path, PATH_MAX - 1 - pathlen), "identity", e0)

(***************************************************************************)
(* The credential scope.                                                   *)
(***************************************************************************)
\* Host: whether setfsuid(new) / setfsgid(new) takes effect for a thread
\* whose filesystem id is cur, in a process with real id r and effective
\* id e.  A process with effective uid 0 holds CAP_SETUID and CAP_SETGID.
HostMaySetFsid(cr, new, cur, r, e) == cr.euid = 0 \/ new \in {r, e, cur}

\* setfsuid(new): the previous value is returned, the new value is in
\* effect only if the host allows it.
setfsuid(cr, new, cur) ==
  [ret |-> cur,
   now |-> IF HostMaySetFsid(cr, new, cur, cr.ruid, cr.euid) THEN new ELSE cur]
setfsgid(cr, new, cur) ==
  [ret |-> cur,
   now |-> IF HostMaySetFsid(cr, new, cur, cr.rgid, cr.egid) THEN new ELSE cur]

\* The threads whose filesystem ids a setfsuid or setfsgid of thread t
\* sets: the calling thread.
\* a variant in which the ids belong to the process
FsidScope_process(t) == Threads

FsidScope(t) == { t }

Switch(call, arg, r) == [call |-> call, arg |-> arg, prev |-> r.ret, now |-> r.now]

\* a variant that switches the user id only
take_context_uid_only(pd, cr, ctx, uid, gid) ==
  IF ctx.pid = 0
  THEN [fsuid |-> uid, fsgid |-> gid, calls |-> << >>, warn |-> << >>]
  ELSE LET u == setfsuid(cr, ctx.uid, uid)
       IN [fsuid |-> u.now, fsgid |-> gid,
           calls |-> << Switch("setfsuid", ctx.uid, u) >>,
           warn |-> IF u.ret # pd.base_uid THEN << "take:fsuid" >> ELSE << >>]

\* unsharedfs_take_context_id(): from filesystem ids (uid, gid) to the new
\* ones, with the switches made and the warnings logged.
unsharedfs_take_context_id(pd, cr, ctx, uid, gid) ==
  IF ctx.pid = 0
  THEN [fsuid |-> uid, fsgid |-> gid, calls |-> << >>, warn |-> << >>]
  ELSE LET g == setfsgid(cr, ctx.gid, gid)
           u == setfsuid(cr, ctx.uid, uid)
       IN [fsuid |-> u.now, fsgid |-> g.now,
           calls |-> << Switch("setfsgid", ctx.gid, g), Switch("setfsuid", ctx.uid, u) >>,
           warn |-> (IF g.ret # pd.base_gid THEN << "take:fsgid" >> ELSE << >>)
                    \o (IF u.ret # pd.base_uid THEN << "take:fsuid" >> ELSE << >>)]

\* a variant that restores the group id first
drop_context_gid_first(pd, cr, ctx, uid, gid) ==
  IF ctx.pid = 0
  THEN [fsuid |-> uid, fsgid |-> gid, calls |-> << >>, warn |-> << >>]
  ELSE LET g == setfsgid(cr, pd.base_gid, gid)
           u == setfsuid(cr, pd.base_uid, uid)
       IN [fsuid |-> u.now, fsgid |-> g.now,
           calls |-> << Switch("setfsgid", pd.base_gid, g), Switch("setfsuid", pd.base_uid, u) >>,
           warn |-> (IF g.ret # ctx.gid THEN << "drop:fsgid" >> ELSE << >>)
                    \o (IF u.ret # ctx.uid THEN << "drop:fsuid" >> ELSE << >>)]

\* unsharedfs_drop_context_id()
unsharedfs_drop_context_id(pd, cr, ctx, uid, gid) ==
  IF ctx.pid = 0
  THEN [fsuid |-> uid, fsgid |-> gid, calls |-> << >>, warn |-> << >>]
  ELSE LET u == setfsuid(cr, pd.base_uid, uid)
           g == setfsgid(cr, pd.base_gid, gid)
       IN [fsuid |-> u.now, fsgid |-> g.now,
           calls |-> << Switch("setfsuid", pd.base_uid, u), Switch("setfsgid", pd.base_gid, g) >>,
           warn |-> (IF u.ret # ctx.uid THEN << "drop:fsuid" >> ELSE << >>)
                    \o (IF g.ret # ctx.gid THEN << "drop:fsgid" >> ELSE << >>)]

(***************************************************************************)
(* The operation table (struct fuse_operations) and the host call each     *)
(* callback makes.                                                         *)
(***************************************************************************)
PathOps == { "getattr", "readlink", "mknod", "mkdir", "unlink", "rmdir",
             "symlink", "chmod", "chown", "truncate", "utimens", "open",
             "statfs", "setxattr", "getxattr", "listxattr", "removexattr",
             "opendir", "access", "create" }
TwoPathOps == { "rename", "link" }
FileHandleOps == { "read", "write", "release", "fsync", "ftruncate", "fgetattr" }
DirHandleOps == { "readdir", "releasedir" }
HandleOps == FileHandleOps \cup DirHandleOps
Openers == { "open", "create", "opendir" }
Releasers == { "release", "releasedir" }

\* the arguments of a callback that select its host call
ArgsOf(op) == IF op = "mknod" THEN { "S_IFREG", "S_IFIFO", "S_IFCHR" }
              ELSE IF op = "fsync" THEN { "datasync", "sync" }
              ELSE IF op = "readdir" THEN { "offset 0", "offset 1" }
              ELSE { "-" }

\* the host calls of a callback, in the order it makes them
HostCallsOf(op, arg) ==
  CASE op = "getattr" -> << "lstat" >>
    [] op = "readlink" -> << "readlink" >>
    [] op = "mknod" -> IF arg = "S_IFREG" THEN << "open", "close" >>
                       ELSE IF arg = "S_IFIFO" THEN << "mkfifo" >>
                       ELSE << "mknod" >>
    [] op = "mkdir" -> << "mkdir" >>
    [] op = "unlink" -> << "unlink" >>
    [] op = "rmdir" -> << "rmdir" >>
    [] op = "symlink" -> << "symlink" >>
    [] op = "rename" -> << "rename" >>
    [] op = "link" -> << "link" >>
    [] op = "chmod" -> << "chmod" >>
    [] op = "chown" -> << "chown" >>
    [] op = "truncate" -> << "truncate" >>
    [] op = "utimens" -> << "utimensat" >>
    [] op = "open" -> << "open" >>
    [] op = "read" -> << "pread" >>
    [] op = "write" -> << "pwrite" >>
    [] op = "statfs" -> << "statvfs" >>
    [] op = "release" -> << "close" >>
    [] op = "fsync" -> IF arg = "datasync" THEN << "fdatasync" >> ELSE << "fsync" >>
    [] op = "setxattr" -> << "lsetxattr" >>
    [] op = "getxattr" -> << "lgetxattr" >>
    [] op = "listxattr" -> << "llistxattr" >>
    [] op = "removexattr" -> << "lremovexattr" >>
    [] op = "opendir" -> << "opendir" >>
    [] op = "readdir" -> << "readdir" >>
    [] op = "releasedir" -> << "closedir" >>
    [] op = "access" -> << "access" >>
    [] op = "create" -> << "open" >>
    [] op = "ftruncate" -> << "ftruncate" >>
    [] op = "fgetattr" -> << "fstat" >>

\* the logical path a callback hands to the resolver first, and second
\* a variant that takes the new path first in rename and link too
FirstPathOf_new(r) == IF r.op \in { "symlink", "rename", "link" } THEN r.newpath ELSE r.path

FirstPathOf(r) == IF r.op = "symlink" THEN r.newpath ELSE r.path

\* a variant that hands the first path to the resolver again
SecondPathOf_first(r) == r.path

SecondPathOf(r) == r.newpath

(***************************************************************************)
(* The host below the backing root.                                        *)
(***************************************************************************)
DirNames == IdNames \cup { FallbackName }
Absent == [kind |-> 0, owner |-> 0]
Entry(kind, owner) == [kind |-> kind, owner |-> owner]

\* The layouts of the backing root the host moves between: the directory
\* of id 1 is owned by 1, owned by somebody else, is a regular file or a
\* block device, or is missing.  The other directories belong to the id
\* they are there for, the fallback directory to id 12.
Layout(s) ==
  [n \in DirNames |->
     IF n = decimal(1) THEN s
     ELSE IF n \in { FallbackName, decimal(12) } THEN Entry(S_IFDIR, 12)
     ELSE Entry(S_IFDIR, BigId)]
DirLayouts ==
  { Layout(s) : s \in { Absent, Entry(S_IFDIR, 1), Entry(S_IFDIR, 12),
                        Entry(S_IFREG, 1), Entry(S_IFBLK, 1) } }

IsPrefix(a, b) == Len(a) <= Len(b) /\ SubSeq(b, 1, Len(a)) = a

\* Host: the names below the backing root that the string s lies in.
HostTopsOf(pd, s) ==
  { n \in DirNames : LET d == pd.rootdir \o << "/" >> \o n
                     IN s = d \/ IsPrefix(d \o << "/" >>, s) }

\* Host: the string s can be walked down to its last component.
HostWalks(pd, s) == \E n \in HostTopsOf(pd, s) : dirs[n].kind = S_IFDIR

\* Host: errno of a walk that cannot be made: a component that is no
\* directory, or a missing one.
HostWalkErr(pd, s) ==
  IF \E n \in HostTopsOf(pd, s) : dirs[n].kind \notin { 0, S_IFDIR } THEN ENOTDIR
  ELSE ENOENT

\* pos: the number of entries a directory stream has delivered
FreeSlot == [kind |-> "free", pos |-> 0]
FreeSlots == { i \in DOMAIN fdtab : fdtab[i].kind = "free" }
LowestFree == CHOOSE i \in FreeSlots : \A j \in FreeSlots : i <= j

Creating == { "mknod", "mkfifo", "mkdir", "symlink", "link" }

\* the directory entries a host readdir loop delivers
DirEntries == << ".", "..", "f" >>

(***************************************************************************)
(* Requests.                                                               *)
(***************************************************************************)
\* struct stat as lstat fills it: the inode and its link count
NoStatbuf == [st_ino |-> 0, st_nlink |-> 0]
\* a host none of whose names the model follows
NoFiles == << >>

NoContext == [uid |-> 0, gid |-> 0, pid |-> 0]
NoReq == [op |-> "none", path |-> << >>, newpath |-> << >>, ctx |-> NoContext,
          arg |-> "-"]
NoHist == [entry_uid |-> 0, entry_gid |-> 0, probes |-> << >>, res |-> << >>,
           calls |-> << >>, warn |-> << >>, hostops |-> << >>, filled |-> << >>,
           stream |-> "-", hosterr |-> 0,
           stored |-> << >>, left |-> << >>, statbuf |-> NoStatbuf,
           samefile |-> FALSE, steps |-> << >>]

\* the target of a symbolic link, handed over verbatim
LinkTarget == << "/", "t" >>

PathRequests ==
  { [op |-> o, path |-> p, newpath |-> << >>, ctx |-> c, arg |-> a]
    : o \in PathOps \ { "symlink" }, p \in LogicalPaths, c \in Contexts,
      a \in { "-", "S_IFREG", "S_IFIFO", "S_IFCHR" } }
SymlinkRequests ==
  { [op |-> "symlink", path |-> LinkTarget, newpath |-> p, ctx |-> c, arg |-> "-"]
    : p \in LogicalPaths, c \in Contexts }
TwoPathRequests ==
  { [op |-> o, path |-> p, newpath |-> q, ctx |-> c, arg |-> "-"]
    : o \in TwoPathOps, p \in LogicalPaths, q \in LogicalPaths, c \in Contexts }
HandleRequests ==
  { [op |-> o, path |-> << >>, newpath |-> << >>, ctx |-> c, arg |-> a]
    : o \in HandleOps, c \in Contexts,
      a \in { "-", "datasync", "sync", "offset 0", "offset 1" } }
Requests == { r \in PathRequests \cup SymlinkRequests \cup TwoPathRequests
                    \cup HandleRequests : r.arg \in ArgsOf(r.op) }

(***************************************************************************)
(* The mounted file system: initial states.                                *)
(***************************************************************************)
Config(root, dd, mode, chk, cr) ==
  [rootdir |-> root, defaultdir |-> dd, fsmode |-> mode, check_ownership |-> chk,
   base_uid |-> cr.ruid, base_gid |-> cr.rgid, allow_other_isset |-> 1]

\* The records the dispatcher is handed as private data: with and without
\* fallback, by uid with and without the ownership check, by gid.
Configs(root, cr) ==
  { Config(root, Ptr(FallbackName), UID_ONLY, 1, cr),
    Config(root, Ptr(FallbackName), UID_ONLY, 0, cr),
    Config(root, NULL, UID_ONLY, 1, cr),
    Config(root, NULL, GID_ONLY, 0, cr) }

ShortRoot == << "/", "b" >>
RootCred == [ruid |-> 0, euid |-> 0, rgid |-> 0, egid |-> 0]

\* The mounts the model starts from: every configuration mounted by root,
\* and the usual one (uid mode, ownership check, fallback) with a long
\* backing root, under each of the other process identities, and in a
\* build with the narrow long.  The resolver reads no process id and the
\* credential scope no field of the configuration but base_uid and
\* base_gid.
Usual(root, cr) == Config(root, Ptr(FallbackName), UID_ONLY, 1, cr)
Mounts ==
  { [cred |-> RootCred, abi |-> "LP64", pdata |-> c] : c \in Configs(ShortRoot, RootCred) }
  \cup { [cred |-> RootCred, abi |-> "LP64", pdata |-> Usual(LongPath(PATH_MAX - 3), RootCred)],
         [cred |-> RootCred, abi |-> "ILP32", pdata |-> Usual(ShortRoot, RootCred)] }
  \cup { [cred |-> cr, abi |-> "LP64", pdata |-> Usual(ShortRoot, cr)] : cr \in Creds }

Mounted == [pc |-> "mounted", i |-> 1, status |-> 0, out |-> << >>]

InitThreads ==
  /\ pc = [t \in Threads |-> "idle"]
  /\ req = [t \in Threads |-> NoReq]
  /\ fpath = [t \in Threads |-> << >>]
  /\ fnewpath = [t \in Threads |-> << >>]
  \* a new thread has the effective ids of the process as filesystem ids
  /\ fsuid = [t \in Threads |-> cred.euid]
  /\ fsgid = [t \in Threads |-> cred.egid]
  /\ errno = [t \in Threads |-> 0]
  /\ rc = [t \in Threads |-> 0]
  /\ retstat = [t \in Threads |-> 0]
  /\ fi_fh = [t \in Threads |-> 0]
  /\ hist = [t \in Threads |-> NoHist]

Init ==
  /\ \E m \in Mounts : cred = m.cred /\ abi = m.abi /\ pdata = m.pdata
  /\ dirs \in DirLayouts
  /\ fdtab = [i \in 1..MaxOpen |-> FreeSlot]
  /\ fuse_open = {}
  /\ pool = {1}
  /\ InitThreads
  /\ argv = << >>
  /\ outargs = << >>
  /\ mstate = Mounted
  /\ files = NoFiles
  /\ trace = << >>

(***************************************************************************)
(* The callbacks, step by step.                                            *)
(***************************************************************************)
\* The runtime hands a request to an idle thread.  A callback on a handle
\* gets the value its opener left in fi->fh; a release is the last callback
\* on its handle.
Dispatch(t, R) ==
  /\ mstate.pc = "mounted"
  /\ t \in pool
  /\ pc[t] = "idle"
  /\ Len(trace) < MaxTrace
  /\ \E r \in R :
       /\ req' = [req EXCEPT ![t] = r]
       /\ IF r.op \in HandleOps
          THEN \E h \in fuse_open :
                 /\ h.kind = (IF r.op \in DirHandleOps THEN "DIR" ELSE "fd")
                 /\ \A u \in Threads \ {t} : ~(req[u].op \in HandleOps /\ fi_fh[u] = h.fh)
                 /\ fi_fh' = [fi_fh EXCEPT ![t] = h.fh]
                 /\ pc' = [pc EXCEPT ![t] = "take"]
          ELSE /\ fi_fh' = [fi_fh EXCEPT ![t] = 0]
               /\ pc' = [pc EXCEPT ![t] = "resolve"]
  /\ retstat' = [retstat EXCEPT ![t] = 0]
  /\ rc' = [rc EXCEPT ![t] = 0]
  /\ hist' = [hist EXCEPT ![t] = [NoHist EXCEPT !.entry_uid = fsuid[t],
                                                !.entry_gid = fsgid[t]]]
  /\ UNCHANGED << pdata, cred, abi, dirs, fdtab, fuse_open, pool, fpath, fnewpath,
                  fsuid, fsgid, errno, mountvars, hostvars >>

Begin(t) == Dispatch(t, Requests)

\* if (!unsharedfs_fullpath(fpath, path)) return -errno;  -- for the first
\* path and, in rename and link, for the second.
Resolve(t) ==
  /\ pc[t] \in { "resolve", "resolve2" }
  /\ \E fault \in BOOLEAN :
       LET r == req[t]
           first == pc[t] = "resolve"
           path == IF first THEN FirstPathOf(r) ELSE SecondPathOf(r)
           probe == snprintf(PATH_MAX, IdDirOf(pdata, ugid_of(pdata, r.ctx))).buf
           sb == HostStat(pdata, probe, fault)
           res == unsharedfs_fullpath(pdata, r.ctx, path, sb, errno[t])
       IN /\ (fault => res.probed)
          /\ IF first THEN /\ fpath' = [fpath EXCEPT ![t] = res.fpath]
                           /\ UNCHANGED fnewpath
                      ELSE /\ fnewpath' = [fnewpath EXCEPT ![t] = res.fpath]
                           /\ UNCHANGED fpath
          /\ errno' = [errno EXCEPT ![t] = res.errno]
          /\ hist' = [hist EXCEPT
               ![t].steps = Append(@, "resolve"),
               ![t].probes = IF res.probed THEN Append(@, probe) ELSE @,
               ![t].res = Append(@, [logical |-> path, ok |-> res.ok,
                                     branch |-> res.branch, errno |-> res.errno,
                                     sb |-> IF res.probed THEN sb ELSE NoStat,
                                     probed |-> res.probed,
                                     uid |-> fsuid[t], gid |-> fsgid[t],
                                     fpath |-> res.fpath])]
          /\ IF res.ok = 0
             THEN /\ retstat' = [retstat EXCEPT ![t] = -res.errno]
                  /\ pc' = [pc EXCEPT ![t] = "ret"]
             ELSE /\ UNCHANGED retstat
                  /\ pc' = [pc EXCEPT ![t] =
                       IF first /\ r.op \in TwoPathOps THEN "resolve2" ELSE "take"]
  /\ UNCHANGED << pdata, cred, abi, dirs, fdtab, fuse_open, pool, req, fsuid, fsgid,
                  rc, fi_fh, mountvars, hostvars >>

\* unsharedfs_take_context_id();
Take(t) ==
  /\ pc[t] = "take"
  /\ LET s == unsharedfs_take_context_id(pdata, cred, req[t].ctx, fsuid[t], fsgid[t])
     IN /\ fsuid' = [u \in DOMAIN fsuid |-> IF u \in FsidScope(t) THEN s.fsuid ELSE fsuid[u]]
        /\ fsgid' = [u \in DOMAIN fsgid |-> IF u \in FsidScope(t) THEN s.fsgid ELSE fsgid[u]]
        /\ hist' = [hist EXCEPT ![t].steps = Append(@, "enter"),
                                ![t].calls = @ \o s.calls, ![t].warn = @ \o s.warn]
  /\ pc' = [pc EXCEPT ![t] = "host"]
  /\ UNCHANGED << pdata, cred, abi, dirs, fdtab, fuse_open, pool, req, fpath, fnewpath,
                  errno, rc, retstat, fi_fh, mountvars, hostvars >>

\* What the observer notes of one host call: the call, its path or
\* descriptor arguments, the filesystem ids it ran under, the backing
\* tree it acted in and the owners of the directories of that tree at the
\* time of the call.
HostOp(t, call, p1, p2, target, fd, tree) ==
  [call |-> call, path |-> p1, path2 |-> p2, target |-> target, fd |-> fd,
   uid |-> fsuid[t], gid |-> fsgid[t], tree |-> tree,
   owners |-> { dirs[n].owner : n \in { m \in tree : dirs[m].kind = S_IFDIR } }]

HostFrame == << pdata, cred, abi, dirs, fuse_open, pool, req, fpath, fnewpath, fsuid,
                fsgid, fi_fh, mountvars, hostvars >>

\* The host call of a callback that names its object by path and opens
\* nothing: retstat = lstat(fpath, statbuf); and the like.
HostPath(t) ==
  LET r == req[t]
      call == HostCallsOf(r.op, r.arg)[1]
      two == r.op \in TwoPathOps
      walks == HostWalks(pdata, fpath[t]) /\ (two => HostWalks(pdata, fnewpath[t]))
  IN /\ pc[t] = "host"
     /\ r.op \in (PathOps \cup TwoPathOps) \ Openers
     /\ ~(r.op = "mknod" /\ r.arg = "S_IFREG")
     /\ \E good \in BOOLEAN :
          /\ good => walks
          /\ rc' = [rc EXCEPT ![t] = IF good THEN 0 ELSE -1]
          /\ errno' = [errno EXCEPT ![t] =
               IF good THEN @
               ELSE IF ~HostWalks(pdata, fpath[t]) THEN HostWalkErr(pdata, fpath[t])
               ELSE IF ~walks THEN HostWalkErr(pdata, fnewpath[t])
               ELSE IF call \in Creating THEN EEXIST ELSE ENOENT]
          \* mknod computes its result before it leaves the scope
          /\ retstat' = [retstat EXCEPT ![t] =
               IF r.op = "mknod" THEN (IF good THEN 0 ELSE -errno'[t]) ELSE @]
     /\ hist' = [hist EXCEPT ![t].steps = Append(@, "host"), ![t].hostops =
          Append(@, HostOp(t, call, fpath[t], IF two THEN fnewpath[t] ELSE << >>,
                           IF r.op = "symlink" THEN r.path ELSE << >>, 0,
                           HostTopsOf(pdata, fpath[t])))]
     /\ pc' = [pc EXCEPT ![t] = "drop"]
     /\ UNCHANGED << HostFrame, fdtab >>

\* fd = open(fpath, ...); dp = opendir(fpath);
HostOpen(t) ==
  LET r == req[t]
      call == HostCallsOf(r.op, r.arg)[1]
      can == HostWalks(pdata, fpath[t]) /\ FreeSlots # {}
      tree == HostTopsOf(pdata, fpath[t])
  IN /\ pc[t] = "host"
     /\ r.op \in Openers
     /\ \E good \in BOOLEAN :
          /\ good => can
          /\ rc' = [rc EXCEPT ![t] =
               IF good THEN LowestFree ELSE IF r.op = "opendir" THEN 0 ELSE -1]
          /\ errno' = [errno EXCEPT ![t] =
               IF good THEN @
               ELSE IF ~HostWalks(pdata, fpath[t]) THEN HostWalkErr(pdata, fpath[t])
               ELSE IF FreeSlots = {} THEN EMFILE
               ELSE IF r.op = "create" THEN EEXIST ELSE ENOENT]
          /\ fdtab' = IF good
               THEN [fdtab EXCEPT ![LowestFree] =
                       [kind |-> IF r.op = "opendir" THEN "DIR" ELSE "fd",
                        pos |-> 0]]
               ELSE fdtab
          /\ hist' = [hist EXCEPT ![t].steps = Append(@, "host"), ![t].hostops =
               Append(@, HostOp(t, call, fpath[t], << >>, << >>,
                                IF good THEN LowestFree ELSE 0, tree))]
     /\ pc' = [pc EXCEPT ![t] = "drop"]
     /\ UNCHANGED << HostFrame, retstat >>

\* mknod of a regular file: retstat = open(fpath, O_CREAT | O_EXCL |
\* O_WRONLY, mode); then retstat = close(retstat);
HostMknodReg(t) ==
  LET r == req[t]
      can == HostWalks(pdata, fpath[t]) /\ FreeSlots # {}
      tree == HostTopsOf(pdata, fpath[t])
  IN /\ pc[t] = "host"
     /\ r.op = "mknod" /\ r.arg = "S_IFREG"
     /\ \E good \in BOOLEAN :
          /\ good => can
          /\ rc' = [rc EXCEPT ![t] = IF good THEN 0 ELSE -1]
          /\ errno' = [errno EXCEPT ![t] =
               IF good THEN @
               ELSE IF ~HostWalks(pdata, fpath[t]) THEN HostWalkErr(pdata, fpath[t])
               ELSE IF FreeSlots = {} THEN EMFILE ELSE EEXIST]
          /\ retstat' = [retstat EXCEPT ![t] = IF good THEN 0 ELSE -errno'[t]]
          /\ hist' = [hist EXCEPT ![t].steps = Append(@, "host"), ![t].hostops =
               IF good
               THEN @ \o << HostOp(t, "open", fpath[t], << >>, << >>, LowestFree, tree),
                            HostOp(t, "close", << >>, << >>, << >>, LowestFree, tree) >>
               ELSE Append(@, HostOp(t, "open", fpath[t], << >>, << >>, 0, tree))]
     /\ pc' = [pc EXCEPT ![t] = "drop"]
     /\ UNCHANGED << HostFrame, fdtab >>

\* The host call of a callback on an open file: pread(fi->fh, ...),
\* pwrite, close, fsync, fdatasync, ftruncate, fstat.
HostHandle(t) ==
  LET r == req[t]
      call == HostCallsOf(r.op, r.arg)[1]
      fd == fi_fh[t]
      valid == fd \in DOMAIN fdtab /\ fdtab[fd].kind = "fd"
  IN /\ pc[t] = "host"
     /\ r.op \in FileHandleOps
     /\ \E good \in BOOLEAN :
          /\ good => valid
          /\ rc' = [rc EXCEPT ![t] =
               IF ~good THEN -1 ELSE IF call \in { "pread", "pwrite" } THEN 1 ELSE 0]
          /\ errno' = [errno EXCEPT ![t] =
               IF good THEN @ ELSE IF valid THEN EIO ELSE EBADF]
          \* fsync computes its result before it leaves the scope
          /\ retstat' = [retstat EXCEPT ![t] =
               IF r.op = "fsync" THEN (IF good THEN 0 ELSE -errno'[t]) ELSE @]
     /\ fdtab' = IF call = "close" /\ valid THEN [fdtab EXCEPT ![fd] = FreeSlot]
                 ELSE fdtab
     /\ hist' = [hist EXCEPT ![t].steps = Append(@, "host"), ![t].hostops =
          Append(@, HostOp(t, call, << >>, << >>, << >>, fd,
                           {}))]
     /\ pc' = [pc EXCEPT ![t] = "drop"]
     /\ UNCHANGED HostFrame

\* errno as an earlier call on the thread may have left it
StaleErrnos == { 0, ENOENT }

\* what the filler is handed for an entry: filler(buf, de->d_name, NULL, 0)
Filled(name) == [d_name |-> name, stbuf |-> NULL, off |-> 0]

\* readdir: de = readdir(dp); if (de == 0) retstat = -errno; else the loop
\* do { filler(buf, de->d_name, NULL, 0) } while ((de = readdir(dp)) != NULL)
\* The stream goes on where the last host readdir left it.  `upto` is the
\* number of entries the filler takes before it refuses one: all that are
\* left, or all but the last.
HostReaddir(t) ==
  LET r == req[t]
      dp == fi_fh[t]
      valid == dp \in DOMAIN fdtab /\ fdtab[dp].kind = "DIR"
      n == Len(DirEntries)
      op == HostOp(t, "readdir", << >>, << >>, << >>, dp,
                   {})
  IN /\ pc[t] = "host"
     /\ r.op = "readdir"
     /\ \/ \* the first readdir fails
           /\ ~valid \/ fdtab[dp].pos < n
           /\ rc' = [rc EXCEPT ![t] = -1]
           /\ errno' = [errno EXCEPT ![t] = IF valid THEN EIO ELSE EBADF]
           /\ retstat' = [retstat EXCEPT ![t] = -errno'[t]]
           /\ hist' = [hist EXCEPT ![t].steps = Append(@, "host"),
                                   ![t].hostops = Append(@, op),
                                   ![t].stream = "error",
                                   ![t].hosterr = errno'[t]]
           /\ UNCHANGED fdtab
        \/ \* the stream is at its end: the first readdir returns NULL and
           \* leaves errno alone
           /\ valid /\ fdtab[dp].pos = n
           /\ \E stale \in StaleErrnos :
                /\ errno' = [errno EXCEPT ![t] = stale]
                /\ retstat' = [retstat EXCEPT ![t] = -stale]
           /\ rc' = [rc EXCEPT ![t] = -1]
           /\ hist' = [hist EXCEPT ![t].steps = Append(@, "host"),
                                   ![t].hostops = Append(@, op),
                                   ![t].stream = "end"]
           /\ UNCHANGED fdtab
        \/ \* the loop: rc is the number of entries handed to the filler
           /\ valid /\ fdtab[dp].pos < n
           /\ LET rest == SubSeq(DirEntries, fdtab[dp].pos + 1, n)
                  m == Len(rest)
              IN \E upto \in { m - 1, m } :
                   LET handed == IF upto < m THEN upto + 1 ELSE m
                   IN /\ rc' = [rc EXCEPT ![t] = handed]
                      /\ retstat' = [retstat EXCEPT ![t] =
                           IF upto < m THEN -ENOMEM ELSE 0]
                      /\ fdtab' = [fdtab EXCEPT ![dp].pos = @ + handed]
                      /\ hist' = [hist EXCEPT
                           ![t].steps = Append(@, "host"),
                           ![t].hostops = Append(@, op),
                           ![t].filled = [i \in 1..handed |-> Filled(rest[i])],
                           ![t].stream = IF upto < m THEN "refused" ELSE "read"]
           /\ UNCHANGED errno
     /\ pc' = [pc EXCEPT ![t] = "drop"]
     /\ UNCHANGED HostFrame

\* closedir((DIR *) (uintptr_t) fi->fh);
HostClosedir(t) ==
  LET dp == fi_fh[t]
      valid == dp \in DOMAIN fdtab /\ fdtab[dp].kind = "DIR"
  IN /\ pc[t] = "host"
     /\ req[t].op = "releasedir"
     /\ rc' = [rc EXCEPT ![t] = IF valid THEN 0 ELSE -1]
     /\ errno' = [errno EXCEPT ![t] = IF valid THEN @ ELSE EBADF]
     /\ fdtab' = IF valid THEN [fdtab EXCEPT ![dp] = FreeSlot] ELSE fdtab
     /\ hist' = [hist EXCEPT ![t].steps = Append(@, "host"), ![t].hostops =
          Append(@, HostOp(t, "closedir", << >>, << >>, << >>, dp,
                           {}))]
     /\ pc' = [pc EXCEPT ![t] = "drop"]
     /\ UNCHANGED << HostFrame, retstat >>

\* The value a callback returns for the host result rc and errno e, for
\* the callbacks that compute it after they have left the scope.
Normalised(op, r, e, early) ==
  CASE op \in { "mknod", "fsync", "readdir" } -> early
    [] op = "getattr" -> IF r # 0 THEN -e ELSE r
    [] op = "readlink" -> IF r < 0 THEN -e ELSE 0
    [] op \in { "open", "create" } -> IF r < 0 THEN -e ELSE 0
    [] op = "opendir" -> IF r = 0 THEN -e ELSE 0
    [] op = "release" -> r
    [] op = "releasedir" -> 0
    [] OTHER -> IF r < 0 THEN -e ELSE r

\* errno after the warnings of the credential scope: setfsuid and setfsgid
\* leave errno alone, a warning is written to stderr by logmsg and the
\* write can fail.
errno_after_logmsg(e, warn) == IF warn = << >> THEN { e } ELSE { e, EIO }

\* a variant that leaves fi->fh alone
fi_fh_kept(op, fd, old) == old

\* a variant in which open and create leave fi->fh alone
fi_fh_opendir_only(op, fd, old) == IF op = "opendir" THEN fd ELSE old

\* fi->fh = fd; in open and create, fi->fh = (intptr_t) dp; in opendir
fi_fh_after(op, fd, old) == IF op \in Openers THEN fd ELSE old

\* unsharedfs_drop_context_id(); and the rest of the callback up to its
\* return statement: the result is normalised, open, create and opendir
\* store the descriptor or stream in fi->fh.
Drop(t) ==
  /\ pc[t] = "drop"
  /\ LET s == unsharedfs_drop_context_id(pdata, cred, req[t].ctx, fsuid[t], fsgid[t])
         stores == req[t].op \in Openers
     IN /\ fsuid' = [u \in DOMAIN fsuid |-> IF u \in FsidScope(t) THEN s.fsuid ELSE fsuid[u]]
        /\ fsgid' = [u \in DOMAIN fsgid |-> IF u \in FsidScope(t) THEN s.fsgid ELSE fsgid[u]]
        /\ \E e \in errno_after_logmsg(errno[t], s.warn) :
             /\ errno' = [errno EXCEPT ![t] = e]
             /\ retstat' = [retstat EXCEPT ![t] = Normalised(req[t].op, rc[t], e, @)]
        /\ fi_fh' = [fi_fh EXCEPT ![t] = fi_fh_after(req[t].op, rc[t], @)]
        /\ hist' = [hist EXCEPT ![t].steps = Append(@, "leave"),
                                ![t].calls = @ \o s.calls, ![t].warn = @ \o s.warn,
                                ![t].stored = IF stores THEN Append(@, fi_fh'[t]) ELSE @,
                                ![t].left = << [rc |-> rc[t], errno |-> errno[t]] >>]
  /\ pc' = [pc EXCEPT ![t] = "ret"]
  /\ UNCHANGED << pdata, cred, abi, dirs, fdtab, fuse_open, pool, req, fpath, fnewpath,
                  rc, mountvars, files, trace >>

\* The callback has returned: the runtime keeps the handle of a successful
\* open, create or opendir, forgets the handle of a release and the thread
\* is free for the next request.
Return(t) ==
  /\ pc[t] = "ret"
  /\ fuse_open' =
       IF req[t].op \in Openers /\ retstat[t] = 0
       THEN fuse_open \cup { [fh |-> fi_fh[t],
                              kind |-> IF req[t].op = "opendir" THEN "DIR" ELSE "fd"] }
       ELSE IF req[t].op \in Releasers
       THEN { h \in fuse_open : h.fh # fi_fh[t] }
       ELSE fuse_open
  /\ pc' = [pc EXCEPT ![t] = "idle"]
  /\ req' = [req EXCEPT ![t] = NoReq]
  /\ fpath' = [fpath EXCEPT ![t] = << >>]
  /\ fnewpath' = [fnewpath EXCEPT ![t] = << >>]
  /\ errno' = [errno EXCEPT ![t] = 0]
  /\ rc' = [rc EXCEPT ![t] = 0]
  /\ retstat' = [retstat EXCEPT ![t] = 0]
  /\ fi_fh' = [fi_fh EXCEPT ![t] = 0]
  /\ hist' = [hist EXCEPT ![t] = NoHist]
  /\ trace' = IF DOMAIN files # {} /\ hist[t].hostops # << >>
              THEN Append(trace, [req |-> req[t], retstat |-> retstat[t],
                                  statbuf |-> hist[t].statbuf,
                                  samefile |-> hist[t].samefile,
                                  branches |-> [k \in DOMAIN hist[t].res |->
                                                  hist[t].res[k].branch]])
              ELSE trace
  /\ UNCHANGED << pdata, cred, abi, dirs, fdtab, pool, fsuid, fsgid, mountvars, files >>

\* Somebody changes the backing root: an identity directory is removed,
\* created, replaced by a file or changes its owner.  The change is taken
\* where a resolution follows it: between callbacks and between the two
\* resolutions of rename and link.  After the last resolution of a callback
\* its host call can fail whatever the resolver has found.
EnvChange ==
  /\ mstate.pc = "mounted"
  /\ \A t \in pool : pc[t] \in { "idle", "resolve2" }
  /\ dirs' \in DirLayouts \ { dirs }
  /\ UNCHANGED << pdata, cred, abi, fdtab, fuse_open, pool, pc, req, fpath, fnewpath,
                  fsuid, fsgid, errno, rc, retstat, fi_fh, hist, mountvars, hostvars >>

Next ==
  \/ \E t \in Threads : Begin(t)
  \/ \E t \in Threads : Resolve(t)
  \/ \E t \in Threads : Take(t)
  \/ \E t \in Threads : HostPath(t)
  \/ \E t \in Threads : HostOpen(t)
  \/ \E t \in Threads : HostMknodReg(t)
  \/ \E t \in Threads : HostHandle(t)
  \/ \E t \in Threads : HostReaddir(t)
  \/ \E t \in Threads : HostClosedir(t)
  \/ \E t \in Threads : Drop(t)
  \/ \E t \in Threads : Return(t)
  \/ EnvChange

Spec == Init /\ [][Next]_vars

(***************************************************************************)
(* The mount driver.                                                       *)
(***************************************************************************)
\* An element of argv: a word that does not start with "-" (nonopt), a
\* word that does (opt), or "-o" with its comma-separated list (group).
\* The text of "--fallback=NAME" is kept as the template and NAME.
NonOpt(text) == [form |-> "nonopt", text |-> text, val |-> << >>, opts |-> << >>]
Opt(text) == [form |-> "opt", text |-> text, val |-> << >>, opts |-> << >>]
FallbackOpt(name) == [form |-> "opt", text |-> "--fallback=", val |-> name, opts |-> << >>]
Group(opts) == [form |-> "group", text |-> "-o", val |-> << >>, opts |-> opts]

ArgWords ==
  { NonOpt("/b"), NonOpt("/mnt"),
    Opt("--version"), Opt("-V"), Opt("-h"), Opt("--help"), Opt("-f"),
    Opt("--no-check-ownership"), Opt("--use-gid"),
    FallbackOpt(<< "d" >>), FallbackOpt(<< "a", "/", "b" >>), FallbackOpt(<< >>),
    Group(<< "allow_other" >>), Group(<< "ro" >>) }

RECURSIVE SeqsUpTo(_, _)
SeqsUpTo(S, n) == IF n = 0 THEN { << >> }
                  ELSE LET shorter == SeqsUpTo(S, n - 1)
                       IN shorter \cup { Append(q, x) : q \in shorter, x \in S }
ArgLists == SeqsUpTo(ArgWords, MaxArgs)

\* unsharedfs_options[]: template -> key
KeyOfTemplate(text) ==
  CASE text = "--version" -> "KEY_VERSION"
    [] text \in { "-h", "--help" } -> "KEY_HELP"
    [] text = "--fallback=" -> "KEY_FALLBACK"
    [] text = "--no-check-ownership" -> "KEY_NO_CHECK_OWNERSHIP"
    [] text = "--use-gid" -> "KEY_USE_GID"
    [] text = "allow_other" -> "KEY_ALLOW_OTHER"
    [] OTHER -> "FUSE_OPT_KEY_OPT"

\* Host: realpath(arg, NULL) is the canonical name of an existing file and
\* NULL otherwise.
realpath(text) ==
  CASE text = "/b" -> Ptr(<< "/", "b" >>)
    [] text = "/mnt" -> Ptr(<< "/", "m", "n", "t" >>)
    [] OTHER -> NULL

\* unsharedfs_parse_options(data, arg, key, outargs): the new private data
\* and the return value (0 consume, 1 keep, -1 abort), or the exit of the
\* process.
unsharedfs_parse_options(pd, text, val, key, oom) ==
  CASE key = "KEY_VERSION" -> [pd |-> pd, ret |-> 0, exit |-> TRUE, out |-> << "version" >>]
    [] key = "KEY_HELP" -> [pd |-> pd, ret |-> 0, exit |-> TRUE, out |-> << "usage" >>]
    [] key = "KEY_FALLBACK" ->
         IF oom
         THEN [pd |-> [pd EXCEPT !.defaultdir = NULL], ret |-> -1, exit |-> FALSE,
               out |-> << "malloc failed" >>]
         ELSE [pd |-> [pd EXCEPT !.defaultdir = Ptr(val)], ret |-> 0, exit |-> FALSE,
               out |-> << >>]
    [] key = "KEY_NO_CHECK_OWNERSHIP" ->
         [pd |-> [pd EXCEPT !.check_ownership = 0], ret |-> 0, exit |-> FALSE, out |-> << >>]
    [] key = "KEY_USE_GID" ->
         [pd |-> [pd EXCEPT !.fsmode = GID_ONLY, !.check_ownership = 0],
          ret |-> 0, exit |-> FALSE, out |-> << >>]
    [] key = "KEY_ALLOW_OTHER" ->
         [pd |-> [pd EXCEPT !.allow_other_isset = 1], ret |-> 1, exit |-> FALSE, out |-> << >>]
    [] OTHER ->
         IF pd.rootdir = NULL
         THEN [pd |-> [pd EXCEPT !.rootdir = realpath(text)], ret |-> 0, exit |-> FALSE,
               out |-> << >>]
         ELSE [pd |-> pd, ret |-> 1, exit |-> FALSE, out |-> << >>]

\* fuse_opt_parse on one element of argv: the key it finds for the element
\* (for a group, for its options in turn), the call of the callback, and
\* what is kept for the runtime.
RECURSIVE ParseGroup(_, _, _, _)
ParseGroup(pd, opts, kept, oom) ==
  IF opts = << >> THEN [pd |-> pd, kept |-> kept, exit |-> FALSE, ret |-> 0, out |-> << >>]
  ELSE LET r == unsharedfs_parse_options(pd, Head(opts), << >>,
                                         KeyOfTemplate(Head(opts)), oom)
       IN IF r.exit \/ r.ret = -1
          THEN [pd |-> r.pd, kept |-> kept, exit |-> r.exit, ret |-> r.ret, out |-> r.out]
          ELSE ParseGroup(r.pd, Tail(opts),
                          IF r.ret = 1 THEN Append(kept, Head(opts)) ELSE kept, oom)

ParseWord(pd, a, oom) ==
  IF a.form = "group"
  THEN LET g == ParseGroup(pd, a.opts, << >>, oom)
       IN [pd |-> g.pd, exit |-> g.exit, ret |-> g.ret, out |-> g.out,
           keep |-> IF g.kept = << >> THEN << >> ELSE << Group(g.kept) >>]
  ELSE LET key == IF a.form = "nonopt" THEN "FUSE_OPT_KEY_NONOPT"
                  ELSE KeyOfTemplate(a.text)
           r == unsharedfs_parse_options(pd, a.text, a.val, key, oom)
       IN [pd |-> r.pd, exit |-> r.exit, ret |-> r.ret, out |-> r.out,
           keep |-> IF r.ret = 1 THEN << a >> ELSE << >>]

\* A field of the malloc'ed record that main does not set holds whatever
\* the allocator left there.
GarbageName == << "?" >>
Unset == { NULL, Ptr(GarbageName) }

\* The process before main has allocated its private data.
InitMount ==
  /\ cred \in Creds
  /\ abi \in Builds
  /\ pdata = NULL
  /\ argv \in ArgLists
  /\ outargs = << >>
  /\ mstate = [pc |-> "start", i |-> 1, status |-> 0, out |-> << >>]
  /\ dirs = Layout(Entry(S_IFDIR, 1))
  /\ fdtab = [i \in 1..MaxOpen |-> FreeSlot]
  /\ fuse_open = {}
  /\ pool = {}
  /\ InitThreads
  /\ files = NoFiles
  /\ trace = << >>

MountFrame == << cred, abi, dirs, fdtab, fuse_open, pool, pc, req, fpath, fnewpath,
                 fsuid, fsgid, errno, rc, retstat, fi_fh, hist, argv, hostvars >>

\* main(): pdata = malloc(...); the ids of the process are saved,
\* check_ownership and fsmode are set; the other fields are not.
MainAlloc ==
  /\ mstate.pc = "start"
  /\ \/ /\ mstate' = [mstate EXCEPT !.pc = "exit", !.status = 1,
                                    !.out = << "unsharedfs init" >>]
        /\ UNCHANGED pdata
     \/ /\ \E rd \in Unset, dd \in Unset, ao \in { 0, 1 } :
             pdata' = [rootdir |-> rd, defaultdir |-> dd, fsmode |-> UID_ONLY,
                       check_ownership |-> 0, base_uid |-> cred.ruid,
                       base_gid |-> cred.rgid, allow_other_isset |-> ao]
        /\ mstate' = [mstate EXCEPT !.pc = "parse"]
  /\ UNCHANGED << MountFrame, outargs >>

\* fuse_opt_parse(&args, pdata, unsharedfs_options, unsharedfs_parse_options),
\* one element of argv at a time; main returns 1 when it fails.
ParseArg ==
  /\ mstate.pc = "parse"
  /\ mstate.i <= Len(argv)
  /\ \E oom \in BOOLEAN :
       LET r == ParseWord(pdata, argv[mstate.i], oom)
       IN /\ (oom => r.ret = -1)
          /\ pdata' = r.pd
          /\ outargs' = outargs \o r.keep
          /\ mstate' = IF r.exit
                       THEN [mstate EXCEPT !.pc = "exit", !.status = 0, !.out = r.out]
                       ELSE IF r.ret = -1
                       THEN [mstate EXCEPT !.pc = "exit", !.status = 1, !.out = r.out]
                       ELSE [mstate EXCEPT !.i = @ + 1]
  /\ UNCHANGED MountFrame

\* main() after the options: the warning for a process that is not root,
\* the refusal without allow_other, and fuse_main.
MainMount ==
  /\ mstate.pc = "parse"
  /\ mstate.i > Len(argv)
  /\ LET warn == IF cred.ruid # 0 /\ cred.euid # 0 THEN << "warning: not root" >>
                 ELSE << >>
     IN mstate' = IF pdata.allow_other_isset = 0
                  THEN [mstate EXCEPT !.pc = "exit", !.status = 1,
                                      !.out = warn \o << "warning: allow_other" >>]
                  ELSE [mstate EXCEPT !.pc = "mounted", !.out = warn]
  /\ UNCHANGED << pdata, MountFrame, outargs >>

NextMount == MainAlloc \/ ParseArg \/ MainMount

SpecMount == InitMount /\ [][NextMount]_vars

(***************************************************************************)
(* Two requests at a time: the runtime serves requests of two callers on   *)
(* two threads of its pool.                                                *)
(***************************************************************************)
\* two callers that differ in uid and in gid
PairContexts == { [uid |-> 1, gid |-> 12, pid |-> 7],
                  [uid |-> 12, gid |-> 1, pid |-> 8] }

PairOps == { "getattr", "open", "read", "write", "release" }

PairRequests ==
  { [op |-> o, path |-> IF o \in HandleOps THEN << >> ELSE LongPath(2),
     newpath |-> << >>, ctx |-> c, arg |-> "-"]
    : o \in PairOps, c \in PairContexts }

UserCred == [ruid |-> 1, euid |-> 1, rgid |-> 1, egid |-> 1]

\* mounted by root by uid and by gid, and by a plain user
PairMounts ==
  { [cred |-> RootCred, pdata |-> Usual(ShortRoot, RootCred)],
    [cred |-> RootCred, pdata |-> Config(ShortRoot, NULL, GID_ONLY, 0, RootCred)],
    [cred |-> UserCred, pdata |-> Usual(ShortRoot, UserCred)] }

InitPair ==
  /\ \E m \in PairMounts : cred = m.cred /\ pdata = m.pdata
  /\ abi = "LP64"
  /\ dirs = Layout(Entry(S_IFDIR, 1))
  /\ fdtab = [i \in 1..(MaxOpen + 1) |-> FreeSlot]
  /\ fuse_open = {}
  /\ pool = Threads
  /\ InitThreads
  /\ argv = << >>
  /\ outargs = << >>
  /\ mstate = Mounted
  /\ files = NoFiles
  /\ trace = << >>

BeginPair(t) == Dispatch(t, PairRequests)

NextPair ==
  \/ \E t \in Threads : BeginPair(t)
  \/ \E t \in Threads : Resolve(t)
  \/ \E t \in Threads : Take(t)
  \/ \E t \in Threads : HostPath(t)
  \/ \E t \in Threads : HostOpen(t)
  \/ \E t \in Threads : HostHandle(t)
  \/ \E t \in Threads : Drop(t)
  \/ \E t \in Threads : Return(t)

SpecPair == InitPair /\ [][NextPair]_vars

(***************************************************************************)
(* One caller on a host whose files the model follows: getattr, rename     *)
(* and link on two names of the caller's directory.                        *)
(***************************************************************************)
OtherPath == << "/", "g" >>
RenamePaths == { LongPath(2), OtherPath }
RenameCaller == [uid |-> 1, gid |-> 12, pid |-> 7]

RenameRequests ==
  { [op |-> "getattr", path |-> p, newpath |-> << >>, ctx |-> RenameCaller, arg |-> "-"]
    : p \in RenamePaths }
  \cup { [op |-> o, path |-> p, newpath |-> q, ctx |-> RenameCaller, arg |-> "-"]
         : o \in TwoPathOps, p \in RenamePaths, q \in RenamePaths }

\* the names the model follows
NameIn(top, p) == ShortRoot \o << "/" >> \o top \o p
Followed == { NameIn(decimal(RenameCaller.uid), p) : p \in RenamePaths }

\* Host: the link count of inode i
NLink(tab, i) == Cardinality({ n \in DOMAIN tab : tab[n] = i })

\* Host: lstat(p), rename(p, q) and link(p, q) on the table of names: the
\* value returned, errno, the new table and the stat buffer.  rename of two
\* names of one file does nothing and succeeds.
HostFileCall(call, p, q, tab) ==
  CASE call = "lstat" ->
         IF tab[p] = 0
         THEN [rc |-> -1, err |-> ENOENT, files |-> tab, statbuf |-> NoStatbuf]
         ELSE [rc |-> 0, err |-> 0, files |-> tab,
               statbuf |-> [st_ino |-> tab[p], st_nlink |-> NLink(tab, tab[p])]]
    [] call = "rename" ->
         IF tab[p] = 0
         THEN [rc |-> -1, err |-> ENOENT, files |-> tab, statbuf |-> NoStatbuf]
         ELSE IF tab[p] = tab[q]
         THEN [rc |-> 0, err |-> 0, files |-> tab, statbuf |-> NoStatbuf]
         ELSE [rc |-> 0, err |-> 0, files |-> [tab EXCEPT ![q] = tab[p], ![p] = 0],
               statbuf |-> NoStatbuf]
    [] call = "link" ->
         IF tab[p] = 0
         THEN [rc |-> -1, err |-> ENOENT, files |-> tab, statbuf |-> NoStatbuf]
         ELSE IF tab[q] # 0
         THEN [rc |-> -1, err |-> EEXIST, files |-> tab, statbuf |-> NoStatbuf]
         ELSE [rc |-> 0, err |-> 0, files |-> [tab EXCEPT ![q] = tab[p]],
               statbuf |-> NoStatbuf]

\* retstat = lstat(fpath, statbuf); retstat = rename(fpath, fnewpath);
\* retstat = link(fpath, fnewpath); on names the model follows.
HostFile(t) ==
  LET r == req[t]
      call == HostCallsOf(r.op, r.arg)[1]
      two == r.op \in TwoPathOps
      p == fpath[t]
      q == IF two THEN fnewpath[t] ELSE fpath[t]
      h == HostFileCall(call, p, q, files)
      \* for the observer: the names of the caller for the two logical paths
      a == IdDirOf(pdata, ugid_of(pdata, r.ctx)) \o r.path
      b == IdDirOf(pdata, ugid_of(pdata, r.ctx)) \o r.newpath
  IN /\ pc[t] = "host"
     /\ call \in { "lstat", "rename", "link" }
     /\ p \in DOMAIN files /\ q \in DOMAIN files
     /\ rc' = [rc EXCEPT ![t] = h.rc]
     /\ errno' = [errno EXCEPT ![t] = IF h.rc = 0 THEN @ ELSE h.err]
     /\ files' = h.files
     /\ hist' = [hist EXCEPT
          ![t].steps = Append(@, "host"),
          ![t].hostops = Append(@, HostOp(t, call, p, IF two THEN q ELSE << >>,
                                          << >>, 0, HostTopsOf(pdata, p))),
          ![t].statbuf = h.statbuf,
          ![t].samefile = /\ two
                          /\ a \in DOMAIN files /\ b \in DOMAIN files
                          /\ files[a] = files[b]]
     /\ pc' = [pc EXCEPT ![t] = "drop"]
     /\ UNCHANGED << pdata, cred, abi, dirs, fdtab, fuse_open, pool, req, fpath,
                     fnewpath, fsuid, fsgid, retstat, fi_fh, mountvars, trace >>

Inodes == { 1, 2 }

InitRename ==
  /\ cred = RootCred
  /\ abi = "LP64"
  /\ pdata = Config(ShortRoot, NULL, UID_ONLY, 1, RootCred)
  /\ dirs = Layout(Entry(S_IFDIR, 1))
  /\ fdtab = [i \in 1..MaxOpen |-> FreeSlot]
  /\ fuse_open = {}
  /\ pool = {1}
  /\ InitThreads
  /\ argv = << >>
  /\ outargs = << >>
  /\ mstate = Mounted
  /\ files \in [Followed -> Inodes \cup { 0 }]
  /\ trace = << >>

BeginRename(t) == Dispatch(t, RenameRequests)

NextRename ==
  \/ \E t \in Threads : BeginRename(t)
  \/ \E t \in Threads : Resolve(t)
  \/ \E t \in Threads : Take(t)
  \/ \E t \in Threads : HostFile(t)
  \/ \E t \in Threads : Drop(t)
  \/ \E t \in Threads : Return(t)

SpecRename == InitRename /\ [][NextRename]_vars

(***************************************************************************)
(* The backing root changes while a callback runs.                         *)
(***************************************************************************)
RaceOps == { "getattr", "mkdir", "unlink", "open" }
RaceRequests ==
  { r \in Requests : r.op \in RaceOps /\ r.path = LongPath(2) /\ r.ctx.uid = 1 }

\* mounted by root with the ownership check, with and without fallback
RaceMounts == { Usual(ShortRoot, RootCred),
                Config(ShortRoot, NULL, UID_ONLY, 1, RootCred) }

InitRace ==
  /\ cred = RootCred
  /\ abi = "LP64"
  /\ pdata \in RaceMounts
  /\ dirs \in DirLayouts
  /\ fdtab = [i \in 1..MaxOpen |-> FreeSlot]
  /\ fuse_open = {}
  /\ pool = {1}
  /\ InitThreads
  /\ argv = << >>
  /\ outargs = << >>
  /\ mstate = Mounted
  /\ files = NoFiles
  /\ trace = << >>

BeginRace(t) == Dispatch(t, RaceRequests)

\* Somebody renames, replaces or re-owns an identity directory after the
\* resolver of a callback has made its stat probe and before the callback
\* makes its host call.
Replace ==
  /\ \E t \in pool : pc[t] \in { "take", "host" }
  /\ dirs' \in DirLayouts \ { dirs }
  /\ UNCHANGED << pdata, cred, abi, fdtab, fuse_open, pool, pc, req, fpath, fnewpath,
                  fsuid, fsgid, errno, rc, retstat, fi_fh, hist, mountvars, hostvars >>

NextRace ==
  \/ \E t \in Threads : BeginRace(t)
  \/ \E t \in Threads : Resolve(t)
  \/ \E t \in Threads : Take(t)
  \/ \E t \in Threads : HostPath(t)
  \/ \E t \in Threads : HostOpen(t)
  \/ \E t \in Threads : Drop(t)
  \/ \E t \in Threads : Return(t)
  \/ EnvChange
  \/ Replace

SpecRace == InitRace /\ [][NextRace]_vars

(***************************************************************************)
(* Properties of the callbacks.  hist[t] is what an observer has noted of  *)
(* the callback running on thread t: the stat probes of the resolver, the  *)
(* switches of the filesystem ids and the host calls with their arguments  *)
(* and the ids they ran under.                                             *)
(***************************************************************************)
Serving == { t \in pool : pc[t] # "idle" }
PathBearing == { t \in Serving : req[t].op \in PathOps \cup TwoPathOps }
OnHandle == { t \in Serving : req[t].op \in HandleOps }
NPaths(t) == IF req[t].op \in TwoPathOps THEN 2 ELSE 1
IdOf(ctx) == IF pdata.fsmode = UID_ONLY THEN ctx.uid ELSE ctx.gid
IdentityOf(t) == IdOf(req[t].ctx)
LogicalOf(t, k) == IF k = 1 THEN FirstPathOf(req[t]) ELSE SecondPathOf(req[t])
IdentityPath(t, k) ==
  pdata.rootdir \o << "/" >> \o decimal(IdentityOf(t)) \o LogicalOf(t, k)
\* the string the resolver probes for the identity, and the composed path
ProbedPrefix(t) == IdDirOf(pdata, IdentityOf(t))
ProbedPath(t, k) == ProbedPrefix(t) \o LogicalOf(t, k)
FallbackPath(t, k) ==
  pdata.rootdir \o << "/" >> \o Deref(pdata.defaultdir) \o LogicalOf(t, k)
\* the path argument of a host call that belongs to the k-th logical path
PathArg(h, k) == IF k = 1 THEN h.path ELSE h.path2
PathCalls(t) == { j \in DOMAIN hist[t].hostops : hist[t].hostops[j].call # "close" }
Probed(t, k) == hist[t].res[k].probed
Probe(t, k) == hist[t].res[k].sb
\* the stat probe failed and a fallback is configured
FallbackHit(t, k) == Probed(t, k) /\ Probe(t, k).rc # 0 /\ pdata.defaultdir # NULL
\* the probe found no entry
Missing(t, k) == Probed(t, k) /\ Probe(t, k).rc # 0 /\ Probe(t, k).err = ENOENT
\* the probe found an entry that passes the resolver's validation: the
\* directory bit of its mode is set and, under check_ownership, its owner
\* is the caller's id
Validated(t, k) ==
  /\ Probed(t, k)
  /\ Probe(t, k).rc = 0
  /\ S_IFDIR_and(Probe(t, k).st_mode) # 0
  /\ pdata.check_ownership # 0 => Probe(t, k).st_uid = IdentityOf(t)
\* the callback is over without a switch of ids and without a host call
FailedEarly(t, e) ==
  /\ pc[t] = "ret"
  /\ retstat[t] = -e
  /\ hist[t].calls = << >>
  /\ hist[t].hostops = << >>
  /\ hist[t].stored = << >>
  /\ fsuid[t] = hist[t].entry_uid
  /\ fsgid[t] = hist[t].entry_gid

\* C1: a path-bearing callback without fallback hit makes its host calls
\* on exactly rootdir + "/" + decimal(id) + logical path, and only after
\* every logical path has been resolved; when the entry of the identity is
\* missing or does not pass the validation, the callback is over with a
\* negative result before any host call.
C1_IdentityPathExact ==
  \A t \in PathBearing :
    /\ hist[t].hostops # << >> => Len(hist[t].res) = NPaths(t)
    /\ \A k \in DOMAIN hist[t].res :
         ~FallbackHit(t, k) =>
           /\ \A j \in PathCalls(t) : PathArg(hist[t].hostops[j], k) = IdentityPath(t, k)
           /\ ~Validated(t, k) =>
                /\ pc[t] = "ret" /\ retstat[t] < 0
                /\ hist[t].hostops = << >> /\ hist[t].calls = << >>

\* The same in a build whose long holds every uid_t and gid_t.
IdentityPathExactLP64 == abi = "LP64" => C1_IdentityPathExact

IdentityPathExactLP64_Witness ==
  \E t \in PathBearing :
    /\ pc[t] = "drop"
    /\ req[t].op = "getattr"
    /\ Validated(t, 1)
    /\ Len(hist[t].hostops) = 1
    /\ hist[t].hostops[1].path = IdentityPath(t, 1)
    /\ rc[t] = 0

\* C2: whenever no callback runs on a thread its filesystem uid and gid
\* are base_uid and base_gid: at the entry of every callback, the first
\* one included, and at its return.
C2_BaseIdsOutsideCallbacks ==
  \A t \in pool :
    /\ pc[t] = "idle" => fsuid[t] = pdata.base_uid /\ fsgid[t] = pdata.base_gid
    /\ pc[t] # "idle" => /\ hist[t].entry_uid = pdata.base_uid
                         /\ hist[t].entry_gid = pdata.base_gid
    /\ pc[t] = "ret" => fsuid[t] = pdata.base_uid /\ fsgid[t] = pdata.base_gid

\* the host calls of a request with a process id run under the ids of the
\* caller
HostCallsUnderCaller ==
  \A t \in Serving :
    req[t].ctx.pid # 0 =>
      \A j \in DOMAIN hist[t].hostops :
        /\ hist[t].hostops[j].uid = req[t].ctx.uid
        /\ hist[t].hostops[j].gid = req[t].ctx.gid

\* C3, as stated: for every request with ctx.pid # 0 the host call of the
\* callback runs with filesystem uid ctx.uid and filesystem gid ctx.gid.
C3_HostCallUnderCallerIds == HostCallsUnderCaller

\* C3, amended: in a process with effective uid 0, for every request with
\* ctx.pid # 0 the host call of the callback runs with filesystem uid
\* ctx.uid and filesystem gid ctx.gid.
C3_HostCallUnderCallerIdsPrivileged == cred.euid = 0 => HostCallsUnderCaller

C3_Witness ==
  \E t \in Serving :
    /\ cred.euid = 0
    /\ req[t].ctx.pid # 0
    /\ req[t].op = "open"
    /\ Len(hist[t].hostops) = 1
    /\ hist[t].hostops[1].uid = req[t].ctx.uid
    /\ hist[t].hostops[1].uid # pdata.base_uid
    /\ hist[t].hostops[1].gid = req[t].ctx.gid
    /\ hist[t].hostops[1].gid # pdata.base_gid

\* the contexts a request can carry
AllContexts == [uid : Ids \cup { BigId }, gid : Ids, pid : { 0, 7 }]
FoundDir(id) == [rc |-> 0, err |-> 0, st_mode |-> S_IFDIR, st_uid |-> id]

\* C4: the path resolved for a caller with a valid identity directory
\* differs, for all logical paths, from every path resolved for a caller
\* of another identity with a valid identity directory, and the two lie
\* in different directories of the backing root; the path is the same for
\* every caller of the same identity, whatever its other ids; and the
\* host calls of the callback act in the directory of its identity only.
C4_PrivateNamespaces ==
  \A t \in PathBearing :
    /\ pc[t] \in { "resolve2", "take" } =>
         LET k == Len(hist[t].res)
         IN Validated(t, k) =>
              \A c \in AllContexts, q \in LogicalPaths :
                LET other == unsharedfs_fullpath(pdata, c, q, FoundDir(IdOf(c)), 0)
                IN /\ (IdOf(c) # IdentityOf(t) /\ other.ok = 1) =>
                        /\ other.fpath # hist[t].res[k].fpath
                        /\ HostTopsOf(pdata, other.fpath)
                             \cap HostTopsOf(pdata, hist[t].res[k].fpath) = {}
                   /\ (IdOf(c) = IdentityOf(t) /\ q = LogicalOf(t, k)) =>
                        /\ other.ok = 1
                        /\ other.fpath = hist[t].res[k].fpath
    /\ \A k \in DOMAIN hist[t].res :
         Validated(t, k) =>
           \A j \in PathCalls(t) :
             /\ HostTopsOf(pdata, PathArg(hist[t].hostops[j], k))
                  = HostTopsOf(pdata, hist[t].probes[k])
             /\ Cardinality(HostTopsOf(pdata, hist[t].probes[k])) = 1

C4_Witness ==
  \E t \in PathBearing :
    /\ pc[t] = "drop"
    /\ req[t].op = "unlink"
    /\ Validated(t, 1)
    /\ IdentityOf(t) = 1
    /\ Len(hist[t].hostops) = 1
    /\ hist[t].hostops[1].tree = { decimal(1) }
    /\ hist[t].probes = << pdata.rootdir \o << "/" >> \o decimal(1) >>
    /\ unsharedfs_fullpath(pdata, [uid |-> 12, gid |-> 12, pid |-> 7], LogicalOf(t, 1),
                           FoundDir(12), 0).ok = 1

\* the probe found a directory that the caller's id does not own
OwnerMismatch(t, k) ==
  /\ Probed(t, k)
  /\ Probe(t, k).rc = 0
  /\ Probe(t, k).st_mode = S_IFDIR
  /\ Probe(t, k).st_uid # IdentityOf(t)

\* C5: under check_ownership, when the identity directory is a directory
\* that the caller's id does not own, the callback returns -EACCES without
\* a switch of the filesystem ids and without any host call but the stat
\* probes of the resolver.
C5_OwnerMismatchDenied ==
  \A t \in PathBearing :
    \A k \in DOMAIN hist[t].res :
      (pdata.check_ownership # 0 /\ OwnerMismatch(t, k)) =>
        /\ FailedEarly(t, EACCES)
        /\ Len(hist[t].probes) = Len(hist[t].res)

C5_Witness ==
  \E t \in PathBearing :
    /\ pdata.check_ownership # 0
    /\ req[t].op = "mkdir"
    /\ Len(hist[t].res) = 1
    /\ OwnerMismatch(t, 1)
    /\ retstat[t] = -EACCES
    /\ pc[t] = "ret"

\* the options on the command line, and those that switch the ownership
\* check off
GivenOptions == { argv[i].text : i \in DOMAIN argv }
ChecksOff == { "--no-check-ownership", "--use-gid" }

\* C6: the ownership check is on by default: when the driver hands
\* control to the runtime and neither --no-check-ownership nor --use-gid
\* was on the command line, check_ownership is set in the private data.
C6_OwnershipCheckByDefault ==
  (mstate.pc = "mounted" /\ GivenOptions \cap ChecksOff = {}) =>
    pdata.check_ownership # 0

\* C7: when the identity directory is missing and a fallback is
\* configured, the logical path resolves to exactly rootdir + "/" +
\* defaultdir + logical path if that fits the path limit, the host calls
\* are made on it, and the callback does not end in the resolver for this
\* path, whatever check_ownership is and whoever owns the fallback
\* directory; if it does not fit, the callback fails with -ENAMETOOLONG.
C7_FallbackPathExact ==
  \A t \in PathBearing :
    \A k \in DOMAIN hist[t].res :
      (Missing(t, k) /\ pdata.defaultdir # NULL) =>
        IF Len(FallbackPath(t, k)) < PATH_MAX
        THEN /\ hist[t].res[k].ok = 1
             /\ hist[t].res[k].fpath = FallbackPath(t, k)
             /\ \A j \in PathCalls(t) : PathArg(hist[t].hostops[j], k) = FallbackPath(t, k)
             /\ (pc[t] = "ret" /\ hist[t].hostops = << >>) =>
                  \E k2 \in DOMAIN hist[t].res \ { k } : hist[t].res[k2].ok = 0
        ELSE FailedEarly(t, ENAMETOOLONG)

C7_Witness ==
  \E t \in PathBearing :
    /\ pdata.check_ownership # 0
    /\ pc[t] = "drop"
    /\ req[t].op = "chmod"
    /\ Missing(t, 1)
    /\ dirs[FallbackName].owner # IdentityOf(t)
    /\ dirs[FallbackName].owner # 0
    /\ dirs[decimal(1)] = Absent
    /\ Len(hist[t].hostops) = 1
    /\ hist[t].hostops[1].path = FallbackPath(t, 1)
    /\ rc[t] = 0

\* C8: when the identity directory is missing and no fallback is
\* configured, the callback returns -EBUSY without a switch of the
\* filesystem ids and without its host call.
C8_MissingWithoutFallbackBusy ==
  \A t \in PathBearing :
    \A k \in DOMAIN hist[t].res :
      (Missing(t, k) /\ pdata.defaultdir = NULL) => FailedEarly(t, EBUSY)

C8_Witness ==
  \E t \in PathBearing :
    /\ pdata.defaultdir = NULL
    /\ req[t].op = "open"
    /\ Len(hist[t].res) = 1
    /\ Missing(t, 1)
    /\ pc[t] = "ret"
    /\ retstat[t] = -EBUSY
    /\ hist[t].hostops = << >>

\* the composed backing path of the k-th logical path does not fit the
\* path limit: the prefix alone, the path below the validated identity
\* directory, or the path below the fallback directory
ComposedTooLong(t, k) ==
  \/ Len(ProbedPrefix(t)) >= PATH_MAX
  \/ Validated(t, k) /\ Len(ProbedPath(t, k)) >= PATH_MAX
  \/ FallbackHit(t, k) /\ Len(FallbackPath(t, k)) >= PATH_MAX

\* the full backing paths a host call can be given for the k-th logical path
ComposedPaths(t, k) ==
  { ProbedPath(t, k) }
    \cup (IF pdata.defaultdir # NULL THEN { FallbackPath(t, k) } ELSE {})

\* C9: on the identity branch and on the fallback branch, when the
\* composed backing path does not fit PATH_MAX the callback returns
\* -ENAMETOOLONG without a switch of the filesystem ids, without a host
\* call and with the file-info slot as it was; and no host call is ever
\* given a path other than a full composed one.
C9_NameTooLong ==
  \A t \in PathBearing :
    /\ \A k \in DOMAIN hist[t].res :
         ComposedTooLong(t, k) => FailedEarly(t, ENAMETOOLONG) /\ fi_fh[t] = 0
    /\ \A k \in 1..NPaths(t), j \in PathCalls(t) :
         PathArg(hist[t].hostops[j], k) \in ComposedPaths(t, k)

C9_Witness ==
  \E t \in PathBearing :
    /\ req[t].op = "create"
    /\ Len(hist[t].res) = 1
    /\ Len(ProbedPrefix(t)) < PATH_MAX
    /\ Validated(t, 1)
    /\ Len(ProbedPath(t, 1)) = PATH_MAX
    /\ pc[t] = "ret"
    /\ retstat[t] = -ENAMETOOLONG
    /\ hist[t].hostops = << >>

\* the handle of the callback on thread t, as the runtime keeps it
HandleOf(t) ==
  [fh |-> fi_fh[t], kind |-> IF req[t].op \in DirHandleOps THEN "DIR" ELSE "fd"]
\* the handles whose release has made its host call
Released == { HandleOf(t) : t \in { u \in OnHandle : /\ req[u].op \in Releasers
                                                     /\ pc[u] \in { "drop", "ret" } } }

\* C10: a callback on a handle makes no stat probe and no resolution, and
\* its host call is on the value in fi->fh, which is a handle the runtime
\* keeps; a successful open, create or opendir leaves in fi->fh what its
\* host call returned; and every handle the runtime keeps stays an open
\* descriptor or stream of its kind until its release, whatever becomes
\* of the directories below the backing root.
C10_HandleCallbacksUseStoredHandle ==
  /\ \A t \in OnHandle :
       /\ hist[t].res = << >>
       /\ hist[t].probes = << >>
       /\ HandleOf(t) \in fuse_open
       /\ \A j \in DOMAIN hist[t].hostops : hist[t].hostops[j].fd = fi_fh[t]
  /\ \A t \in Serving :
       (req[t].op \in Openers /\ pc[t] = "ret" /\ retstat[t] = 0) =>
         /\ Len(hist[t].hostops) = 1
         /\ fi_fh[t] = hist[t].hostops[1].fd
         /\ hist[t].stored = << fi_fh[t] >>
  /\ \A h \in fuse_open \ Released :
       h.fh \in DOMAIN fdtab /\ fdtab[h.fh].kind = h.kind

C10_Witness ==
  \E t \in OnHandle :
    /\ req[t].op = "read"
    /\ req[t].ctx.uid = 1
    /\ pdata.fsmode = UID_ONLY
    /\ dirs[decimal(1)] = Absent
    /\ pc[t] = "drop"
    /\ Len(hist[t].hostops) = 1
    /\ hist[t].hostops[1].fd = fi_fh[t]
    /\ rc[t] = 1

(***************************************************************************)
(* Requests of two callers on two threads.                                 *)
(***************************************************************************)
\* the names below the backing root that belong to the request of thread t:
\* the directory of its id and the fallback directory
OwnTrees(t) ==
  { fmt_ld(IdentityOf(t)) }
  \cup (IF pdata.defaultdir # NULL THEN { Deref(pdata.defaultdir) } ELSE {})

\* every host call of a request with a process id ran under the ids of its
\* own context, which are not those of a request of another caller
OwnCredentials ==
  \A t \in Serving :
    req[t].ctx.pid # 0 =>
      \A j \in DOMAIN hist[t].hostops :
        LET h == hist[t].hostops[j]
        IN /\ h.uid = req[t].ctx.uid /\ h.gid = req[t].ctx.gid
           /\ \A u \in Serving \ { t } :
                /\ req[u].ctx.uid # req[t].ctx.uid => h.uid # req[u].ctx.uid
                /\ req[u].ctx.gid # req[t].ctx.gid => h.gid # req[u].ctx.gid

\* the value the last call of `call` on thread t has left, or `entry`
RECURSIVE LastSwitch(_, _, _)
LastSwitch(calls, call, entry) ==
  IF calls = << >> THEN entry
  ELSE IF calls[Len(calls)].call = call THEN calls[Len(calls)].now
  ELSE LastSwitch(SubSeq(calls, 1, Len(calls) - 1), call, entry)

\* the filesystem ids of a thread are what its own callback has set: the
\* ids of an idle thread are those it started with or the base ids
OwnSwitchesOnly ==
  \A t \in pool :
    IF pc[t] = "idle"
    THEN /\ fsuid[t] \in { cred.euid, pdata.base_uid }
         /\ fsgid[t] \in { cred.egid, pdata.base_gid }
    ELSE /\ fsuid[t] = LastSwitch(hist[t].calls, "setfsuid", hist[t].entry_uid)
         /\ fsgid[t] = LastSwitch(hist[t].calls, "setfsgid", hist[t].entry_gid)

\* a host call on a path acts below a directory of its own request, a host
\* call on a handle on the handle of its own request
OwnTreeOnly ==
  \A t \in Serving :
    \A j \in DOMAIN hist[t].hostops :
      LET h == hist[t].hostops[j]
      IN IF req[t].op \in HandleOps
         THEN /\ h.fd = fi_fh[t]
              /\ \A u \in OnHandle \ { t } : h.fd # fi_fh[u]
         ELSE h.tree # {} /\ h.tree \subseteq OwnTrees(t)

\* C11, as stated: with two requests of different callers on two threads,
\* the host call of each runs under the uid and gid of its own context and
\* never under those of the other, a switch of ids on one thread leaves
\* the ids of the other thread alone, and each request acts on its own
\* backing tree only.
C11_ConcurrentCallersIsolated ==
  /\ OwnCredentials
  /\ OwnSwitchesOnly
  /\ OwnTreeOnly

\* C11, amended: the same in a mount process with effective uid 0.
C11_ConcurrentCallersIsolatedPrivileged ==
  cred.euid = 0 => C11_ConcurrentCallersIsolated

\* two reads of different callers are in their host call at the same time
C11_Witness ==
  /\ cred.euid = 0
  /\ pc[1] = "drop" /\ pc[2] = "drop"
  /\ req[1].op = "read" /\ req[2].op = "read"
  /\ req[1].ctx.uid # req[2].ctx.uid /\ req[1].ctx.gid # req[2].ctx.gid
  /\ hist[1].hostops[1].uid = req[1].ctx.uid
  /\ hist[2].hostops[1].uid = req[2].ctx.uid
  /\ hist[1].hostops[1].fd # hist[2].hostops[1].fd

(***************************************************************************)
(* The value a callback returns.                                           *)
(***************************************************************************)
\* callbacks that have returned from their host call and the leave step;
\* readdir, whose result is a matter of its loop, is left aside
Normalising == { t \in Serving : /\ pc[t] = "ret"
                                 /\ hist[t].left # << >>
                                 /\ req[t].op # "readdir" }
\* what the host call of the callback has returned and left in errno
HostLeft(t) == hist[t].left[1]
HostCallFailed(t) ==
  CASE req[t].op = "getattr" -> HostLeft(t).rc # 0
    [] req[t].op = "opendir" -> HostLeft(t).rc = 0
    [] OTHER -> HostLeft(t).rc < 0

\* C12: a callback whose host call fails with error number e returns -e,
\* one whose host call succeeds returns 0, read and write the byte count;
\* release does so too, and the leave step between the host call and the
\* reading of errno does not change that.  A callback whose resolver fails
\* returns the negation of the error number the resolver has set.
C12_ErrorsNegated ==
  /\ \A t \in Normalising :
       IF HostCallFailed(t) THEN retstat[t] = -HostLeft(t).errno
       ELSE IF req[t].op \in { "read", "write" } THEN retstat[t] = HostLeft(t).rc
       ELSE retstat[t] = 0
  /\ \A t \in PathBearing :
       \A k \in DOMAIN hist[t].res :
         hist[t].res[k].ok = 0 => pc[t] = "ret" /\ retstat[t] = -hist[t].res[k].errno

\* the same without release and releasedir, in a mount process with
\* effective uid 0, whose leave step logs nothing
ErrorsNegatedButRelease ==
  cred.euid = 0 =>
    /\ \A t \in Normalising :
         req[t].op \notin Releasers =>
           IF HostCallFailed(t) THEN retstat[t] = -HostLeft(t).errno
           ELSE IF req[t].op \in { "read", "write" } THEN retstat[t] = HostLeft(t).rc
           ELSE retstat[t] = 0
    /\ \A t \in PathBearing :
         \A k \in DOMAIN hist[t].res :
           hist[t].res[k].ok = 0 => pc[t] = "ret" /\ retstat[t] = -hist[t].res[k].errno

(***************************************************************************)
(* rename and link.                                                        *)
(***************************************************************************)
TwoPath == { t \in Serving : req[t].op \in TwoPathOps }
\* the logical path the k-th resolution of rename and link is for
GivenPath(t, k) == IF k = 1 THEN req[t].path ELSE req[t].newpath

OnIdentity(e) == \A k \in DOMAIN e.branches : e.branches[k] = "identity"

\* Positions i of the trace where a getattr(a) that succeeded is followed by
\* a rename(a, b) of the same caller that succeeded and that by a getattr
\* of the same caller, all below the caller's identity directory.
RenameTriples ==
  { i \in 1..(Len(trace) - 2) :
      LET g == trace[i]
          r == trace[i + 1]
          h == trace[i + 2]
      IN /\ g.req.op = "getattr" /\ g.retstat = 0
         /\ r.req.op = "rename" /\ r.retstat = 0 /\ r.req.path = g.req.path
         /\ h.req.op = "getattr"
         /\ r.req.ctx = g.req.ctx /\ h.req.ctx = g.req.ctx
         /\ OnIdentity(g) /\ OnIdentity(r) /\ OnIdentity(h) }

\* at position i: getattr(b) gives what getattr(a) gave, getattr(a) -ENOENT
RenamedAt(i) ==
  LET g == trace[i]
      r == trace[i + 1]
      h == trace[i + 2]
  IN /\ h.req.path = r.req.newpath => h.retstat = 0 /\ h.statbuf = g.statbuf
     /\ h.req.path = r.req.path => h.retstat = -ENOENT

RenameSourceGone ==
  /\ Len(trace) = 3
  /\ 1 \in RenameTriples
  /\ ~trace[2].samefile
  /\ trace[3].req.path = trace[2].req.path
  /\ trace[3].retstat = -ENOENT

(***************************************************************************)
(* Properties of the mount driver.                                         *)
(***************************************************************************)
\* main is over: the process has exited or the runtime has control
MainOver == mstate.pc \in { "exit", "mounted" }
\* main has failed for want of memory
OutOfMemory == mstate.out \in { << "unsharedfs init" >>, << "malloc failed" >> }
\* fuse_opt_parse has gone through all of argv
ParsedAll == MainOver /\ pdata # NULL /\ mstate.i > Len(argv)

Words(a) == IF a.form = "group" THEN { a.opts[j] : j \in DOMAIN a.opts } ELSE { a.text }
\* the options and words on the command line
GivenWords == UNION { Words(argv[i]) : i \in DOMAIN argv }

\* C15: without allow_other on the command line the driver does not hand
\* control to the runtime and exits with a status other than 0 (a request
\* for the version or the usage text aside); the runtime is started only
\* when allow_other was seen.
C15_NoMountWithoutAllowOther ==
  "allow_other" \notin GivenWords =>
    /\ mstate.pc # "mounted"
    /\ (mstate.pc = "exit" /\ mstate.out \notin { << "version" >>, << "usage" >> })
         => mstate.status # 0

\* the options the driver takes for itself
OwnOptions == { "--version", "-V", "-h", "--help", "--fallback=",
                "--no-check-ownership", "--use-gid" }
NonOptions == { i \in DOMAIN argv : argv[i].form = "nonopt" }
FirstNonOption == CHOOSE i \in NonOptions : \A j \in NonOptions : i <= j

\* argv without the driver's own options and without the first non-option
RECURSIVE Forwarded(_)
Forwarded(i) ==
  IF i > Len(argv) THEN << >>
  ELSE IF argv[i].form = "opt" /\ argv[i].text \in OwnOptions THEN Forwarded(i + 1)
  ELSE IF argv[i].form = "nonopt" /\ i = FirstNonOption THEN Forwarded(i + 1)
  ELSE << argv[i] >> \o Forwarded(i + 1)

\* C16: the driver consumes its own options and the first non-option
\* argument, which canonicalized becomes rootdir; allow_other, the options
\* of the runtime wherever they stand and every further non-option
\* argument are forwarded to the runtime.
C16_ForwardsAllButOwn ==
  ParsedAll =>
    /\ outargs = Forwarded(1)
    /\ NonOptions # {} => pdata.rootdir = realpath(argv[FirstNonOption].text)

VersionWords == { "--version", "-V" }
HelpWords == { "-h", "--help" }

\* C17: with --version or -V on the command line the driver prints its
\* version banner and exits with status 0, with --help or -h it prints the
\* usage text and exits with status 0; it does not mount.
C17_VersionAndHelpExit ==
  (MainOver /\ ~OutOfMemory /\ GivenWords \cap (VersionWords \cup HelpWords) # {}) =>
    /\ mstate.pc = "exit"
    /\ mstate.status = 0
    /\ \/ GivenWords \cap VersionWords # {} /\ mstate.out = << "version" >>
       \/ GivenWords \cap HelpWords # {} /\ mstate.out = << "usage" >>

\* the same for the spellings in the option table: --version, -h, --help
VersionAndHelpInTable ==
  (MainOver /\ ~OutOfMemory /\ GivenWords \cap { "--version", "-h", "--help" } # {}) =>
    /\ mstate.pc = "exit"
    /\ mstate.status = 0
    /\ mstate.out \in { << "version" >>, << "usage" >> }

(***************************************************************************)
(* The ownership check and changes of the backing root.                    *)
(***************************************************************************)
\* the host calls of thread t made below the directory of its identity
IdentityCalls(t) ==
  { j \in DOMAIN hist[t].hostops :
      hist[t].hostops[j].tree = { fmt_ld(IdentityOf(t)) } }

ProbeFault(t, k) == Probed(t, k) /\ Probe(t, k).rc # 0 /\ Probe(t, k).err # ENOENT

\* C19: when the stat of the identity directory fails for a reason other
\* than a missing entry, the callback returns the negation of the error
\* number of stat; the path is not diverted to the fallback directory and
\* the result is not -EBUSY.
C19_StatErrorPropagated ==
  \A t \in PathBearing :
    \A k \in DOMAIN hist[t].res :
      ProbeFault(t, k) =>
        /\ hist[t].res[k].ok = 0
        /\ hist[t].res[k].branch # "fallback"
        /\ pc[t] = "ret"
        /\ retstat[t] = -Probe(t, k).err
        /\ retstat[t] # -EBUSY
        /\ hist[t].hostops = << >>

\* the probe found an entry that is no directory
NoDirectory(t, k) == Probed(t, k) /\ Probe(t, k).rc = 0 /\ Probe(t, k).st_mode # S_IFDIR

\* C20: when BASE/<id> is an entry of any type other than directory the
\* resolver fails with ENOTDIR and the callback returns -ENOTDIR without a
\* host call; the resolver goes on past this check only for a directory.
C20_OnlyDirectoriesPass ==
  \A t \in PathBearing :
    \A k \in DOMAIN hist[t].res :
      /\ NoDirectory(t, k) =>
           /\ hist[t].res[k].ok = 0
           /\ hist[t].res[k].errno = ENOTDIR
           /\ pc[t] = "ret"
           /\ retstat[t] = -ENOTDIR
           /\ hist[t].hostops = << >>
      /\ hist[t].res[k].branch = "identity" => Probe(t, k).st_mode = S_IFDIR

\* the same for a regular file at BASE/<id>
RegularFileIsNoDirectory ==
  \A t \in PathBearing :
    \A k \in DOMAIN hist[t].res :
      (Probed(t, k) /\ Probe(t, k).rc = 0 /\ Probe(t, k).st_mode = S_IFREG) =>
        /\ hist[t].res[k].ok = 0
        /\ hist[t].res[k].errno = ENOTDIR
        /\ pc[t] = "ret"
        /\ retstat[t] = -ENOTDIR
        /\ hist[t].hostops = << >>


(***************************************************************************)
(* The order of the steps of a callback.                                   *)
(***************************************************************************)
\* the steps of a path-bearing callback in the order of its code
StepsOf(t) == [k \in 1..NPaths(t) |-> "resolve"] \o << "enter", "host", "leave" >>
\* the last resolution the callback has made returned 0
ResolutionFailed(t) ==
  hist[t].res # << >> /\ hist[t].res[Len(hist[t].res)].ok = 0

\* The steps taken so far are an initial part of resolve (twice in rename
\* and link), enter, host, leave; a callback whose resolution failed is
\* over after it, with no switch, no host call and fi->fh as it was, and
\* every other callback is over after all its steps.
StepsInOrder ==
  \A t \in PathBearing :
    /\ IsPrefix(hist[t].steps, StepsOf(t))
    /\ ResolutionFailed(t) =>
         /\ pc[t] = "ret"
         /\ \A i \in DOMAIN hist[t].steps : hist[t].steps[i] = "resolve"
         /\ hist[t].calls = << >> /\ hist[t].hostops = << >>
         /\ hist[t].stored = << >> /\ fi_fh[t] = 0
    /\ (pc[t] = "ret" /\ ~ResolutionFailed(t)) => hist[t].steps = StepsOf(t)

\* every stat probe of the resolver ran under base_uid and base_gid
ProbesUnderBaseIds ==
  \A t \in PathBearing :
    \A k \in DOMAIN hist[t].res :
      hist[t].res[k].probed =>
        /\ hist[t].res[k].uid = pdata.base_uid
        /\ hist[t].res[k].gid = pdata.base_gid

\* C21: a path-bearing callback resolves (its stat probe under base_uid and
\* base_gid), enters the scope once, makes its host call, leaves the scope
\* and returns, in this order; after a failed resolution it returns with no
\* switch, no host call and fi->fh not written.
C21_StepsInOrderUnderBaseIds == StepsInOrder /\ ProbesUnderBaseIds

\* the probe of a callback ran under a filesystem uid other than base_uid
ProbeUnderOtherUid ==
  \E t \in PathBearing : \E k \in DOMAIN hist[t].res :
    hist[t].res[k].probed /\ hist[t].res[k].uid # pdata.base_uid

(***************************************************************************)
(* Requests without a process id.                                          *)
(***************************************************************************)
\* the callbacks that serve a request of the runtime itself
WithoutPid == { t \in Serving : req[t].ctx.pid = 0 }

\* Such a callback makes no switch and logs no warning, and the filesystem
\* ids of its thread are at every step what they were on entry.
NoSwitchWithoutPid ==
  \A t \in WithoutPid :
    /\ hist[t].calls = << >> /\ hist[t].warn = << >>
    /\ fsuid[t] = hist[t].entry_uid /\ fsgid[t] = hist[t].entry_gid
    /\ \A j \in DOMAIN hist[t].hostops :
         /\ hist[t].hostops[j].uid = hist[t].entry_uid
         /\ hist[t].hostops[j].gid = hist[t].entry_gid

\* C22: while a request with ctx.pid = 0 is served, before, during and
\* after the host call, the filesystem ids of the thread are base_uid and
\* base_gid, no switch is made and no warning is logged.
C22_BaseIdsWithoutPid ==
  \A t \in WithoutPid :
    /\ hist[t].calls = << >> /\ hist[t].warn = << >>
    /\ fsuid[t] = pdata.base_uid /\ fsgid[t] = pdata.base_gid
    /\ \A j \in DOMAIN hist[t].hostops :
         /\ hist[t].hostops[j].uid = pdata.base_uid
         /\ hist[t].hostops[j].gid = pdata.base_gid

\* a host call of a request without process id under an id other than base_uid
HostCallWithoutPidUnderOtherUid ==
  \E t \in WithoutPid : \E j \in DOMAIN hist[t].hostops :
    hist[t].hostops[j].uid # pdata.base_uid

(***************************************************************************)
(* The order of the switches of a credential scope.                        *)
(***************************************************************************)
\* the switches of a scope for the context ctx: setfsgid(ctx.gid),
\* setfsuid(ctx.uid) on enter, setfsuid(base_uid), setfsgid(base_gid) on
\* leave
ScopeSwitches(ctx) ==
  << [call |-> "setfsgid", arg |-> ctx.gid], [call |-> "setfsuid", arg |-> ctx.uid],
     [call |-> "setfsuid", arg |-> pdata.base_uid],
     [call |-> "setfsgid", arg |-> pdata.base_gid] >>
\* the switches thread t has made in its callback: call and argument
SwitchesMade(t) ==
  [i \in DOMAIN hist[t].calls |->
     [call |-> hist[t].calls[i].call, arg |-> hist[t].calls[i].arg]]
Entered(t) == \E i \in DOMAIN hist[t].steps : hist[t].steps[i] = "enter"
Left(t) == \E i \in DOMAIN hist[t].steps : hist[t].steps[i] = "leave"

\* C23: the switches a callback has made are, in this order, setfsgid to
\* ctx.gid and setfsuid to ctx.uid once it has entered the scope, and then
\* setfsuid to base_uid and setfsgid to base_gid once it has left it.
C23_GidFirstOnEnterUidFirstOnLeave ==
  \A t \in Serving :
    req[t].ctx.pid # 0 =>
      /\ IsPrefix(SwitchesMade(t), ScopeSwitches(req[t].ctx))
      /\ Len(SwitchesMade(t)) = IF Left(t) THEN 4 ELSE IF Entered(t) THEN 2 ELSE 0

\* a callback has left a scope in which all four switches took effect and
\* none of them was a switch to the id the thread had already
C23_Witness ==
  \E t \in Serving :
    /\ req[t].ctx.pid # 0
    /\ Left(t)
    /\ hist[t].hostops # << >>
    /\ \A i \in DOMAIN hist[t].calls :
         /\ hist[t].calls[i].now = hist[t].calls[i].arg
         /\ hist[t].calls[i].prev # hist[t].calls[i].arg

(***************************************************************************)
(* Warnings of the credential scope.                                       *)
(***************************************************************************)
\* the warning that belongs to the i-th switch of a scope
WarnTags == << "take:fsgid", "take:fsuid", "drop:fsuid", "drop:fsgid" >>
Warned(t, i) == \E j \in DOMAIN hist[t].warn : hist[t].warn[j] = WarnTags[i]
\* the i-th switch of the callback left the thread with another id than
\* the one asked for
SwitchFailed(t, i) == hist[t].calls[i].now # hist[t].calls[i].arg

\* C24: a warning is logged for exactly the switches that failed; the host
\* call is made whatever the switches did, and the value returned is the
\* normalised result of the host call.
C24_WarningIffSwitchFailed ==
  \A t \in Serving :
    /\ \A i \in DOMAIN hist[t].calls : SwitchFailed(t, i) <=> Warned(t, i)
    /\ Left(t) =>
         /\ hist[t].hostops # << >>
         /\ retstat[t] = Normalised(req[t].op, hist[t].left[1].rc,
                                    hist[t].left[1].errno, retstat[t])

\* a switch failed and the step that made it logged nothing
FailedSwitchWithoutWarning ==
  \E t \in Serving : \E i \in DOMAIN hist[t].calls : SwitchFailed(t, i) /\ ~Warned(t, i)
\* a warning was logged for a switch that took effect
WarningForSucceededSwitch ==
  \E t \in Serving : \E i \in DOMAIN hist[t].calls : ~SwitchFailed(t, i) /\ Warned(t, i)

\* In a mount process with real and effective uid 0 no switch fails and no
\* warning is logged.
NoWarningUnderRoot ==
  (cred.ruid = 0 /\ cred.euid = 0) =>
    \A t \in Serving :
      /\ hist[t].warn = << >>
      /\ \A i \in DOMAIN hist[t].calls : ~SwitchFailed(t, i)

(***************************************************************************)
(* readdir.                                                                *)
(***************************************************************************)
\* the readdir callbacks whose host step is over
ReaddirDone ==
  { t \in Serving : req[t].op = "readdir" /\ hist[t].stream # "-" }
\* every entry of the backing directory, as the filler is to get it
WholeDirectory == [i \in DOMAIN DirEntries |-> Filled(DirEntries[i])]

\* C25: a readdir callback on an open directory handle, the host readdir
\* reporting no error and the filler taking what it is given, hands every
\* entry of the directory to the filler once, with no struct stat and
\* offset 0, whatever its offset parameter, and returns 0: the first one
\* on the handle and every later one.
C25_ReaddirWholeDirectory ==
  \A t \in ReaddirDone :
    hist[t].stream \notin { "error", "refused" } =>
      /\ hist[t].filled = WholeDirectory
      /\ retstat[t] = 0

\* The readdir callback that found the stream at its start: all the stream
\* has delivered was delivered to this callback.
ReaddirFirstWholeDirectory ==
  \A t \in ReaddirDone :
    (hist[t].stream = "read" /\ fdtab[fi_fh[t]].pos = Len(hist[t].filled)) =>
      /\ hist[t].filled = WholeDirectory
      /\ retstat[t] = 0

\* a later readdir on a handle hands nothing to the filler and returns 0
ReaddirAgainEmpty ==
  \E t \in ReaddirDone :
    hist[t].stream = "end" /\ hist[t].filled = << >> /\ retstat[t] = 0 /\ pc[t] = "ret"

\* C26: when the first host readdir of the callback delivers no entry, the
\* callback returns the negated error number of that readdir, a negative
\* value; when the filler refuses an entry it returns -ENOMEM.
C26_ReaddirErrors ==
  \A t \in ReaddirDone :
    /\ hist[t].stream \in { "error", "end" } =>
         retstat[t] < 0 /\ retstat[t] = -hist[t].hosterr
    /\ hist[t].stream = "refused" => retstat[t] = -ENOMEM

\* The same for a host readdir that fails, as opposed to one that is at
\* the end of the stream.
ReaddirFailureNegated ==
  \A t \in ReaddirDone :
    /\ hist[t].stream = "error" =>
         retstat[t] < 0 /\ retstat[t] = -hist[t].hosterr
    /\ hist[t].stream = "refused" => retstat[t] = -ENOMEM

\* the first host readdir set no error number and the callback returns the
\* one an earlier call left
ReaddirStaleErrno ==
  \E t \in ReaddirDone :
    hist[t].stream = "end" /\ hist[t].hosterr = 0 /\ retstat[t] = -ENOENT

(***************************************************************************)
(* Descriptors and directory streams.                                      *)
(***************************************************************************)
\* the descriptors and streams the process holds open
Held == { i \in DOMAIN fdtab : fdtab[i].kind # "free" }
HostDone(t) == \E i \in DOMAIN hist[t].steps : hist[t].steps[i] = "host"
Opening == { t \in Serving : req[t].op \in Openers }
Closing == { t \in Serving : req[t].op \in Releasers }
KindOf(op) == IF op \in { "opendir", "releasedir" } THEN "DIR" ELSE "fd"
\* what the host call of an opener has opened and the callback has not yet
\* returned to the runtime
JustOpened ==
  { hist[t].hostops[1].fd : t \in { u \in Opening : HostDone(u) } } \ { 0 }
\* the handles whose release or releasedir has made its host call
JustClosed == { fi_fh[t] : t \in { u \in Closing : HostDone(u) } }
\* the handles of the runtime: stored by an opener that returned 0 and not
\* yet given to a release or releasedir that has returned
Stored == { h.fh : h \in fuse_open }

MknodRegOver ==
  \E t \in Serving :
    /\ req[t].op = "mknod" /\ pc[t] = "ret" /\ retstat[t] = 0
    /\ Len(hist[t].hostops) = 2
    /\ Held = {}

(***************************************************************************)
(* The fallback directory of a mount.                                      *)
(***************************************************************************)
\* a name of one path component: not empty, no separator
SingleComponent(name) ==
  name # << >> /\ \A i \in DOMAIN name : name[i] # "/"
\* the values of the --fallback options on the command line
FallbackValues ==
  { argv[i].val : i \in { j \in DOMAIN argv : argv[j].text = "--fallback=" } }

\* C28: the private data main hands to the runtime has no fallback
\* directory, or one that was given with --fallback and is a single path
\* component, not empty and without separator.
C28_FallbackIsOneComponent ==
  (mstate.pc = "mounted" /\ pdata.defaultdir # NULL) =>
    /\ Deref(pdata.defaultdir) \in FallbackValues
    /\ SingleComponent(Deref(pdata.defaultdir))

\* What main hands over is the value of the last --fallback option, when
\* there is one.
FallbackIsLastValue ==
  (mstate.pc = "mounted" /\ FallbackValues # {}) =>
    LET last == CHOOSE i \in DOMAIN argv :
                  /\ argv[i].text = "--fallback="
                  /\ \A j \in DOMAIN argv : argv[j].text = "--fallback=" => j <= i
    IN pdata.defaultdir = Ptr(argv[last].val)

\* mounted with a fallback value that holds a separator, and with an empty one
MountedWithSeparator ==
  /\ mstate.pc = "mounted" /\ pdata.defaultdir = Ptr(<< "a", "/", "b" >>)
MountedWithEmptyFallback ==
  /\ mstate.pc = "mounted" /\ pdata.defaultdir = Ptr(<< >>)

(***************************************************************************)
(* rename and link while the backing root changes.                         *)
(***************************************************************************)
\* both paths of the callback have been resolved
BothResolved(t) ==
  Len(hist[t].res) = 2 /\ hist[t].res[1].ok = 1 /\ hist[t].res[2].ok = 1

\* C29: with a fallback configured, whatever happens to the directory of
\* the caller's identity meanwhile, rename and link resolve their two
\* paths into the same tree: both below the identity directory or both
\* below the fallback directory.
C29_BothPathsInOneTree ==
  \A t \in TwoPath :
    (pdata.defaultdir # NULL /\ BothResolved(t)) =>
      hist[t].res[1].branch = hist[t].res[2].branch

\* The same of a callback during which the backing root stays as it is and
\* no stat fails for another reason than a missing entry.
BothPathsInOneTreeWhenQuiet ==
  \A t \in TwoPath :
    (/\ pdata.defaultdir # NULL /\ BothResolved(t)
     /\ hist[t].res[1].sb = hist[t].res[2].sb) =>
      hist[t].res[1].branch = hist[t].res[2].branch

\* the identity directory was made between the two resolutions, and the
\* host rename takes a name of the fallback tree into it
RenameAcrossTrees ==
  \E t \in TwoPath :
    /\ req[t].op = "rename" /\ BothResolved(t)
    /\ hist[t].res[1].branch = "fallback" /\ hist[t].res[1].sb.err = ENOENT
    /\ hist[t].res[2].branch = "identity"
    /\ Len(hist[t].hostops) = 1
    /\ hist[t].hostops[1].path = FallbackPathOf(pdata, req[t].path)
    /\ hist[t].hostops[1].path2 = IdentityPath(t, 2)
    /\ rc[t] = 0

(***************************************************************************)
(* The length limit of the two branches of the resolver.                   *)
(***************************************************************************)
\* the k-th resolution was made on the identity branch up to the length
\* test: the prefix fits and the probed entry passes the validation
OnIdentityBranch(t, k) == Len(ProbedPrefix(t)) < PATH_MAX /\ Validated(t, k)
Accepted(t, k) == hist[t].res[k].ok = 1

\* C30: on the identity branch and on the fallback branch alike the
\* resolver accepts a composed backing path of length L exactly when
\* L < PATH_MAX.
C30_SameLimitOnBothBranches ==
  \A t \in PathBearing :
    \A k \in DOMAIN hist[t].res :
      /\ OnIdentityBranch(t, k) =>
           (Accepted(t, k) <=> Len(ProbedPath(t, k)) < PATH_MAX)
      /\ FallbackHit(t, k) =>
           (Accepted(t, k) <=> Len(FallbackPath(t, k)) < PATH_MAX)

\* The limits the branches have: L < PATH_MAX below the fallback
\* directory, L < PATH_MAX - 1 below the identity directory.
LimitOfEachBranch ==
  \A t \in PathBearing :
    \A k \in DOMAIN hist[t].res :
      /\ OnIdentityBranch(t, k) =>
           (Accepted(t, k) <=> Len(ProbedPath(t, k)) < PATH_MAX - 1)
      /\ FallbackHit(t, k) =>
           (Accepted(t, k) <=> Len(FallbackPath(t, k)) < PATH_MAX)

\* a composed path of length PATH_MAX - 1 is refused below the identity
\* directory, and one is accepted below the fallback directory
IdentityRefusesLongestPath ==
  \E t \in PathBearing : \E k \in DOMAIN hist[t].res :
    /\ OnIdentityBranch(t, k) /\ Len(ProbedPath(t, k)) = PATH_MAX - 1
    /\ ~Accepted(t, k) /\ retstat[t] = -ENAMETOOLONG
FallbackAcceptsLongestPath ==
  \E t \in PathBearing : \E k \in DOMAIN hist[t].res :
    /\ FallbackHit(t, k) /\ Len(FallbackPath(t, k)) = PATH_MAX - 1
    /\ Accepted(t, k) /\ hist[t].res[k].fpath = FallbackPath(t, k)
====
